---- MODULE Spec2Model ----
(***************************************************************************)
(* OrcaZap: the conversation lifecycle engine.                             *)
(*                                                                         *)
(*   - app/domain/state_machine.py   the transition table                  *)
(*   - app/adapters/whatsapp/webhook.py   webhook ingestion                *)
(*   - app/worker/handlers.py        process_inbound_event (the processor) *)
(*   - app/domain/quote.py           generate_quote, check_approval_required*)
(*   - app/admin/routes.py           approve_quote, reject_quote           *)
(*                                                                         *)
(* The database is modelled by its committed tables; every handler works   *)
(* on a session (its pending writes) that a commit applies and a rollback  *)
(* discards.  The messaging gateway, the job queue and the database's      *)
(* commit are the environment: each answer they can give is a choice.      *)
(***************************************************************************)
EXTENDS Integers, Sequences, FiniteSets, TLC

(***************************************************************************)
(* Bounds of the model.                                                    *)
(***************************************************************************)
MaxMsgs == 1            \* distinct inbound provider_message_ids
MaxSends == 2           \* messages the gateway accepts
MaxCommitFailures == 1  \* commits the database refuses for its own reasons
MaxDeliveries == 3      \* webhook deliveries
MaxRequests == 2        \* webhook requests handled at the same time
MaxWebhookIds == 2      \* distinct provider_message_ids the webhook is sent

PMIDs == 1..MaxMsgs
\* The ids a job can carry: those of the messages, and one id the webhook
\* never persisted a row for.
JobIds == 1..(MaxMsgs + 1)
Requests == 1..MaxRequests
WebhookIds == 1..MaxWebhookIds
NULL == 0

(***************************************************************************)
(* app/db/models.py: the enums.                                            *)
(***************************************************************************)
ConversationState ==
    {"INBOUND", "CAPTURE_MIN", "QUOTE_READY", "QUOTE_SENT",
     "WAITING_REPLY", "HUMAN_APPROVAL", "WON", "LOST"}

QuoteStatus == {"draft", "sent", "expired", "won", "lost"}

ApprovalStatus == {"pending", "approved", "rejected"}

(***************************************************************************)
(* app/domain/state_machine.py                                             *)
(***************************************************************************)
Event ==
    {"first_message_received", "minimal_data_received", "approval_required",
     "quote_approved", "quote_auto_ok", "user_replied", "schedule_confirmed",
     "user_declined", "window_expired", "admin_approved", "admin_rejected"}

\* The table with the row (QUOTE_SENT, window_expired) left out.
VALID_TRANSITIONS_without_expiry ==
    (<<"INBOUND", "first_message_received">> :> "CAPTURE_MIN")
    @@ (<<"CAPTURE_MIN", "minimal_data_received">> :> "QUOTE_READY")
    @@ (<<"QUOTE_READY", "approval_required">> :> "HUMAN_APPROVAL")
    @@ (<<"QUOTE_READY", "quote_approved">> :> "QUOTE_SENT")
    @@ (<<"QUOTE_READY", "quote_auto_ok">> :> "QUOTE_SENT")
    @@ (<<"QUOTE_SENT", "user_replied">> :> "WAITING_REPLY")
    @@ (<<"WAITING_REPLY", "schedule_confirmed">> :> "WON")
    @@ (<<"WAITING_REPLY", "user_declined">> :> "LOST")
    @@ (<<"WAITING_REPLY", "window_expired">> :> "LOST")
    @@ (<<"HUMAN_APPROVAL", "admin_approved">> :> "QUOTE_SENT")
    @@ (<<"HUMAN_APPROVAL", "admin_rejected">> :> "LOST")

VALID_TRANSITIONS ==
    (<<"INBOUND", "first_message_received">> :> "CAPTURE_MIN")
    @@ (<<"CAPTURE_MIN", "minimal_data_received">> :> "QUOTE_READY")
    @@ (<<"QUOTE_READY", "approval_required">> :> "HUMAN_APPROVAL")
    @@ (<<"QUOTE_READY", "quote_approved">> :> "QUOTE_SENT")
    @@ (<<"QUOTE_READY", "quote_auto_ok">> :> "QUOTE_SENT")
    @@ (<<"QUOTE_SENT", "user_replied">> :> "WAITING_REPLY")
    @@ (<<"WAITING_REPLY", "schedule_confirmed">> :> "WON")
    @@ (<<"WAITING_REPLY", "user_declined">> :> "LOST")
    @@ (<<"WAITING_REPLY", "window_expired">> :> "LOST")
    @@ (<<"HUMAN_APPROVAL", "admin_approved">> :> "QUOTE_SENT")
    @@ (<<"HUMAN_APPROVAL", "admin_rejected">> :> "LOST")
    @@ (<<"QUOTE_SENT", "window_expired">> :> "LOST")

\* The value a call has when it raises StateMachineError instead of returning.
StateMachineError == "StateMachineError"

can_transition(current_state, event) ==
    <<current_state, event>> \in DOMAIN VALID_TRANSITIONS

\* get_next_state that keeps the state when the pair is not in the table.
get_next_state_lenient(current_state, event) ==
    IF ~can_transition(current_state, event)
    THEN current_state
    ELSE VALID_TRANSITIONS[<<current_state, event>>]

get_next_state(current_state, event) ==
    IF ~can_transition(current_state, event)
    THEN StateMachineError
    ELSE VALID_TRANSITIONS[<<current_state, event>>]

\* transition that takes the admin's events from any state
transition_admin_unchecked(current_state, event) ==
    IF event = "admin_approved" THEN "QUOTE_SENT"
    ELSE IF event = "admin_rejected" THEN "LOST"
    ELSE get_next_state(current_state, event)

\* transition without a hook: the handlers never pass on_transition.
transition(current_state, event) == get_next_state(current_state, event)


(***************************************************************************)
(* The state.                                                              *)
(***************************************************************************)
VARIABLES
    gate_bound,           \* handlers.py: is the name is_subscription_active bound
    subscription_status,  \* Tenant.subscription_status
    messages,             \* table messages, committed rows in insertion order
    contacts,             \* table contacts
    conversations,        \* table conversations
    quotes,               \* table quotes
    approvals,            \* table approvals
    sent,                 \* the messages the gateway has accepted
    enqueued,             \* jobs put on the queue, per provider_message_id
    webhook,              \* the webhook requests in flight
    worker,               \* the processor run in flight
    admin,                \* the approve / reject request in flight
    text,                 \* what each inbound message says, once it was read
    ndeliveries, nfail,   \* what the environment has used up
    succeeded,            \* history: a run for this message returned normally
    last,                 \* history: how the last finished run ended
    advances,             \* history: the state changes the processor committed
    sm_pc, sm_state, sm_event, sm_result,  \* a caller of transition()
    sm_path,              \* history: the states the caller has held
    snd_pc, snd_attempt,  \* a call of send_text_message: position, attempt
    snd_answers,          \* history: what the gateway did at each attempt
    snd_result,           \* what the call returned or raised
    q_pc,                 \* a caller of the pricing, freight and quote engines
    q_db,                 \* the tenant's configuration tables
    q_call,               \* the function last called and its arguments
    q_ret,                \* what that call returned or raised
    runs,                 \* processor runs of several workers, by worker
    admins                \* approve / reject requests in flight together

dbvars == <<messages, contacts, conversations, quotes, approvals>>
envvars == <<gate_bound, subscription_status, text>>
smvars == <<sm_pc, sm_state, sm_event, sm_result, sm_path>>
sndvars == <<snd_pc, snd_attempt, snd_answers, snd_result>>
qtvars == <<q_pc, q_db, q_call, q_ret>>
runvars == <<runs, admins>>
vars == <<gate_bound, subscription_status, messages, contacts, conversations,
          quotes, approvals, sent, enqueued, webhook, worker, admin, text,
          ndeliveries, nfail, succeeded, last, advances,
          sm_pc, sm_state, sm_event, sm_result, sm_path,
          snd_pc, snd_attempt, snd_answers, snd_result,
          q_pc, q_db, q_call, q_ret, runs, admins>>

(***************************************************************************)
(* Queries on the committed tables.  Row ids are positions in the table;   *)
(* .first() is the first row that matches.                                 *)
(***************************************************************************)
Rows(table) == 1..Len(table)

\* db.query(Message).filter_by(provider_message_id=...).first(), as a row id
MessageByProviderId(pmid) ==
    LET hits == {i \in Rows(messages) : messages[i].pmid = pmid}
    IN IF hits = {} THEN NULL ELSE CHOOSE i \in hits : \A j \in hits : i <= j

\* db.query(Contact).filter_by(tenant_id=..., phone=...).first()
ContactByPhone(phone) ==
    LET hits == {i \in Rows(contacts) : contacts[i].phone = phone}
    IN IF hits = {} THEN NULL ELSE CHOOSE i \in hits : \A j \in hits : i <= j

\* The channel (the tenant's WhatsApp number) every inbound message of the
\* model arrives on, and another channel of the same tenant.
Channel == 1
OtherChannel == 2

\* db.query(Conversation).filter_by(tenant_id, contact_id, channel_id).first()
ConversationByContact(contact_id) ==
    LET hits == {i \in Rows(conversations) :
                    /\ conversations[i].contact_id = contact_id
                    /\ conversations[i].channel_id = Channel}
    IN IF hits = {} THEN NULL ELSE CHOOSE i \in hits : \A j \in hits : i <= j

\* The one customer phone of the model; every inbound message comes from it.
Phone == "+5511999999999"

\* messages without the unique constraint on provider_message_id
MessageInsertAllowed_unconstrained(pmid) == TRUE

\* uq messages.provider_message_id (models.py:289): may this row be inserted
MessageInsertAllowed(pmid) ==
    \A i \in Rows(messages) : messages[i].pmid # pmid

\* uq_contacts_tenant_phone (models.py:253)
ContactInsertAllowed(phone) ==
    \A i \in Rows(contacts) : contacts[i].phone # phone

\* The id the gateway gives to the n-th message it accepts.
ProviderId(n) == 100 + n

(***************************************************************************)
(* The database when the processor starts: the webhook has persisted the   *)
(* inbound messages and enqueued their jobs; the other tables are empty,   *)
(* or hold one contact with one conversation in some state, with or        *)
(* without a draft quote waiting for approval.                             *)
(***************************************************************************)
Seeds ==
    {[conv |-> "none", approval |-> FALSE]}
    \cup [conv : ConversationState, approval : BOOLEAN]

SeedContacts(seed) ==
    IF seed.conv = "none" THEN <<>> ELSE <<[phone |-> Phone]>>

SeedConversations(seed) ==
    IF seed.conv = "none" THEN <<>>
    ELSE <<[contact_id |-> 1, channel_id |-> Channel, state |-> seed.conv]>>

SeedQuotes(seed) ==
    IF seed.approval
    THEN <<[conversation_id |-> 1, status |-> "draft", gated |-> TRUE]>>
    ELSE <<>>

SeedApprovals(seed) ==
    IF seed.approval
    THEN <<[quote_id |-> 1, status |-> "pending", approved_by |-> ""]>>
    ELSE <<>>

Workers == {1, 2}
Admins == {1, 2}
IdleWorker == [pc |-> "idle"]
IdleRequest == [pc |-> "idle"]
IdleAdmin == [pc |-> "idle"]

\* webhook.py:171-179: the row the webhook persists for an inbound message
InboundRow(pmid) ==
    [pmid |-> pmid, direction |-> "inbound", conversation_id |-> NULL,
     kind |-> "text"]

InitRest ==
    /\ sent = <<>>
    /\ webhook = [r \in Requests |-> IdleRequest]
    /\ worker = IdleWorker
    /\ admin = IdleAdmin
    /\ text = [p \in JobIds |-> "unread"]
    /\ ndeliveries = 0 /\ nfail = 0
    /\ succeeded = [p \in JobIds |-> FALSE]
    /\ last = [pmid |-> NULL, outcome |-> "", path |-> "", ai |-> ""]
    /\ advances = <<>>
    /\ runs = [w \in Workers |-> IdleWorker]
    /\ admins = [a \in Admins |-> IdleAdmin]

InitSend ==
    /\ snd_pc = "off"
    /\ snd_attempt = 0
    /\ snd_answers = <<>>
    /\ snd_result = "none"

\* a nullable column holding NULL, an optional argument left at None
Unset == 0 - 1

\* the items of the catalog
ItemIds == {1, 2}

\* a tenant with no configuration; no caller of the engines
EmptyConfig ==
    [pricing_rules |-> <<>>,
     tenant_items |-> [i \in ItemIds |-> Unset],
     volume_discounts |-> {},
     freight_rules |-> {}]

InitQuoteOff ==
    /\ q_pc = "off"
    /\ q_db = EmptyConfig
    /\ q_call = [fn |-> "none"]
    /\ q_ret = [raised |-> "none"]

InitSM ==
    /\ sm_pc = "off"
    /\ sm_state = "INBOUND"
    /\ sm_event = "first_message_received"
    /\ sm_result = "none"
    /\ sm_path = <<"INBOUND">>

Init ==
    /\ gate_bound \in BOOLEAN
    /\ subscription_status \in {"active", "canceled"}
    /\ \E seed \in Seeds :
          /\ contacts = SeedContacts(seed)
          /\ conversations = SeedConversations(seed)
          /\ quotes = SeedQuotes(seed)
          /\ approvals = SeedApprovals(seed)
    /\ messages = [p \in PMIDs |-> InboundRow(p)]
    /\ enqueued = [p \in PMIDs |-> 1]
    /\ InitRest
    /\ InitSM
    /\ InitSend
    /\ InitQuoteOff

(***************************************************************************)
(* app/adapters/whatsapp/webhook.py: _process_message, one message of one  *)
(* delivery.  Three steps: the lookups, the insert and commit, the enqueue.*)
(***************************************************************************)
WebhookMeta == {"ok", "no_id", "no_phone_number_id", "no_channel"}

\* lines 119-165: the idempotency check and the channel lookup
WebhookReceive(r, pmid, meta) ==
    /\ webhook[r].pc = "idle"
    /\ ndeliveries < MaxDeliveries
    /\ ndeliveries' = ndeliveries + 1
    /\ webhook' = [webhook EXCEPT ![r] =
          IF meta = "no_id" THEN IdleRequest
          ELSE IF MessageByProviderId(pmid) # NULL THEN IdleRequest
          ELSE IF meta # "ok" THEN IdleRequest
          ELSE [pc |-> "persist", pmid |-> pmid]]
    /\ UNCHANGED <<dbvars, envvars, qtvars, runvars, smvars, sndvars, sent, enqueued, worker, admin,
                   nfail, succeeded, last, advances>>

\* lines 171-188: db.add(message); db.commit(), or rollback and raise
WebhookPersist(r, dbok) ==
    /\ webhook[r].pc = "persist"
    /\ dbok \/ nfail < MaxCommitFailures
    /\ LET pmid == webhook[r].pmid
           ok == dbok /\ MessageInsertAllowed(pmid)
       IN /\ messages' =
                IF ok
                THEN Append(messages, InboundRow(pmid))
                ELSE messages
          /\ webhook' = [webhook EXCEPT ![r] =
                IF ok THEN [pc |-> "enqueue", pmid |-> pmid] ELSE IdleRequest]
    /\ nfail' = IF dbok THEN nfail ELSE nfail + 1
    /\ UNCHANGED <<contacts, conversations, quotes, approvals, envvars, qtvars,
                   runvars, smvars, sndvars,
                   sent, enqueued, worker, admin, ndeliveries,
                   succeeded, last, advances>>

\* lines 190-209: enqueue_inbound_event, which raises when the queue is down
WebhookEnqueue(r, queue_ok) ==
    /\ webhook[r].pc = "enqueue"
    /\ enqueued' = IF queue_ok
                   THEN [enqueued EXCEPT ![webhook[r].pmid] = @ + 1]
                   ELSE enqueued
    /\ webhook' = [webhook EXCEPT ![r] = IdleRequest]
    /\ UNCHANGED <<dbvars, envvars, qtvars, runvars, smvars, sndvars, sent, worker, admin,
                   ndeliveries, nfail, succeeded, last, advances>>


(***************************************************************************)
(* What an inbound message says, as far as the processor's branches can    *)
(* tell: the outcome of the regex parser, of the catalog lookup, of the    *)
(* pricing and of generate_quote's approval check.                         *)
(***************************************************************************)
Contents ==
    {"incomplete",      \* the regex parser returns (None, False)
     "unknown_items",   \* parsed, no item name is in the tenant catalog
     "partial",         \* parsed, some names resolve and some do not
     "unpriced",        \* parsed, resolved, calculate_quote_totals raises
     "threshold",       \* priced; freight fails or a threshold is crossed
     "auto"}            \* priced, freight found, no reason for approval

\* job_data["use_ai"] and what the language model's answer parsed to:
\* "off" (no AI, or its answer was unusable and the regex parser ran), an
\* empty dict, a dict without the expected keys, or a dict with them,
\* classified as above.
AIResults == {"off", "empty", "malformed"} \cup (Contents \ {"incomplete"})

\* a parser that does not flag the data the AI gave
parse_data_capture_message_unflagged(message_text, ai) ==
    IF ai # "off" THEN [data |-> ai, requires_approval |-> FALSE]
    ELSE IF message_text = "incomplete"
         THEN [data |-> "None", requires_approval |-> FALSE]
         ELSE [data |-> message_text, requires_approval |-> FALSE]

\* parsing.py:15-207 parse_data_capture_message: (parsed_data, requires_approval)
parse_data_capture_message(message_text, ai) ==
    IF ai # "off" THEN [data |-> ai, requires_approval |-> TRUE]
    ELSE IF message_text = "incomplete"
         THEN [data |-> "None", requires_approval |-> FALSE]
         ELSE [data |-> message_text, requires_approval |-> FALSE]

\* a handler that takes every parser result for complete data
NotParsed_never(data) == FALSE

\* handlers.py:229: not parsed_data (None, or a dict with no key)
NotParsed(data) == data \in {"None", "empty"}

\* handlers.py:265-304: the names that found no active tenant item
unknown_skus(data) == data \in {"unknown_items", "partial"}

\* handlers.py:301-308: is quote_items non-empty
quote_items(data) == data \notin {"unknown_items"}

\* pricing.py:102-135 via quote.py:114-119: PricingError -> QuoteGenerationError
QuoteGenerationError(data) == data = "unpriced"

\* quote.py:121-142: needs_approval as generate_quote computes it
generate_quote_needs_approval(data) == data = "threshold"

\* quote.py:175-187: the Approval rows generate_quote adds to the session
generate_quote_approvals(data) ==
    IF generate_quote_needs_approval(data) THEN 1 ELSE 0

\* the handler forgetting that an AI-parsed message always needs approval
needs_approval_without_ai(from_generate_quote, unknown, requires_approval) ==
    from_generate_quote \/ unknown

\* handlers.py:349-355: the handler adds its own reasons to generate_quote's
needs_approval(from_generate_quote, unknown, requires_approval) ==
    from_generate_quote \/ unknown \/ requires_approval

\* core/stripe.py:133-142
is_subscription_active(status) == status \in {"active", "trialing"}

\* a processor without the check of conversation_id
AlreadyProcessed_never(row) == FALSE

\* handlers.py:76-82: the message row already carries a conversation
AlreadyProcessed(row) == messages[row].conversation_id # NULL

(***************************************************************************)
(* The processor's session: the writes it has flushed and not committed.   *)
(***************************************************************************)
EmptyTxn ==
    [contact_new |-> FALSE, contact_id |-> NULL,
     conv_new |-> FALSE, conv_id |-> NULL,
     stamp |-> FALSE, from |-> "", state |-> "",
     quote |-> "", gated |-> FALSE, napprovals |-> 0,
     out |-> "", out_id |-> NULL]

\* handlers.py:108-153: upsert the contact, get or create the conversation,
\* stamp the message; nothing of it is committed yet.
ResolveConversation ==
    LET contact_id == ContactByPhone(Phone)
        conv_id == IF contact_id = NULL THEN NULL
                   ELSE ConversationByContact(contact_id)
    IN [EmptyTxn EXCEPT
          !.contact_new = (contact_id = NULL),
          !.contact_id = contact_id,
          !.conv_new = (conv_id = NULL),
          !.conv_id = conv_id,
          !.stamp = TRUE,
          !.from = IF conv_id = NULL THEN "INBOUND"
                   ELSE conversations[conv_id].state,
          !.state = IF conv_id = NULL THEN "INBOUND"
                    ELSE conversations[conv_id].state]

\* The session after db.rollback(): no pending write; the rows it had
\* loaded are loaded again when they are next used.
RolledBack(txn) ==
    [EmptyTxn EXCEPT
        !.contact_id = txn.contact_id,
        !.conv_id = txn.conv_id,
        !.from = txn.from,
        !.state = txn.from]

\* The run ends: the function returns and the session is closed, or it
\* ends with db.rollback() and an exception the job queue sees.
EndRunWith(pmid, outcome, path, ai) ==
    /\ worker' = IdleWorker
    /\ last' = [pmid |-> pmid, outcome |-> outcome, path |-> path, ai |-> ai]
    /\ succeeded' = IF outcome \in {"raised", "name_error"} THEN succeeded
                    ELSE [succeeded EXCEPT ![pmid] = TRUE]

EndRun(pmid, outcome, path) ==
    EndRunWith(pmid, outcome, path,
               IF worker.pc = "idle" THEN "unused" ELSE worker.ai)

Continue(next) ==
    /\ worker' = next
    /\ UNCHANGED <<succeeded, last>>

Running(pc, pmid, path, txn) ==
    [pc |-> pc, pmid |-> pmid, path |-> path, txn |-> txn,
     ai |-> "unused",                 \* history: what the AI parser gave
     sent_id |-> NULL,                \* history: the id the gateway gave
     after_ok |-> succeeded[pmid]]    \* history: started after a normal return

Raises(path) == [pc |-> "raise", path |-> path]

\* handlers.py:217-499, up to the first send or commit, for a conversation
\* in CAPTURE_MIN.  The result is the next position of the run.
CaptureMin(pmid, txn, message_text, ai) ==
    LET parsed == parse_data_capture_message(message_text, ai)
        data == parsed.data
        needs == needs_approval(generate_quote_needs_approval(data),
                                unknown_skus(data), parsed.requires_approval)
        \* gated: did the quote need approval when it was created
        withQuote == [txn EXCEPT
            !.quote = "draft",
            !.gated = \/ generate_quote_needs_approval(data)
                      \/ unknown_skus(data)
                      \/ ai # "off",
            !.napprovals = generate_quote_approvals(data)
                           + (IF needs THEN 1 ELSE 0)]
    IN IF NotParsed(data) THEN Running("send", pmid, "clarify", txn)
       ELSE IF data = "malformed" THEN Raises("capture")
       ELSE IF ~quote_items(data) THEN Running("send", pmid, "notfound", txn)
       ELSE IF QuoteGenerationError(data)
            THEN Running("send", pmid, "error", RolledBack(txn))
       ELSE IF needs
            THEN IF transition(txn.state, "approval_required")
                        = StateMachineError
                 THEN Raises("approval")
                 ELSE Running("commit", pmid, "approval",
                        [withQuote EXCEPT !.state =
                            transition(txn.state, "approval_required")])
       ELSE IF transition(txn.state, "minimal_data_received")
                        = StateMachineError
            THEN Raises("quote")
            ELSE Running("send", pmid, "quote",
                        [withQuote EXCEPT !.state =
                            transition(txn.state, "minimal_data_received")])

\* the INBOUND branch sending the prompt without assigning the new state
Inbound_keeps_state(pmid, txn) ==
    Running("send", pmid, "prompt", txn)

\* handlers.py:156-166: the conversation is in INBOUND
Inbound(pmid, txn) ==
    IF transition(txn.state, "first_message_received") = StateMachineError
    THEN Raises("prompt")
    ELSE Running("send", pmid, "prompt",
            [txn EXCEPT !.state =
                transition(txn.state, "first_message_received")])

\* handlers.py:38-166, 217-229, 263-392, 424-445, 531-537: a run from its
\* start to its first send or commit, or to its end when it has none.
\* The tenant and the channel of the job exist: the webhook took them from
\* the channel row.
ProcStart(pmid, ai, cls) ==
    /\ worker.pc = "idle"
    /\ LET row == MessageByProviderId(pmid)
           txn == ResolveConversation
           next == IF txn.state = "INBOUND" THEN Inbound(pmid, txn)
                   ELSE IF txn.state = "CAPTURE_MIN"
                        THEN CaptureMin(pmid, txn, cls, ai)
                   ELSE Running("commit", pmid, "other", txn)
       IN IF row = NULL
          THEN /\ EndRun(pmid, "not_found", "")
               /\ UNCHANGED text
          ELSE IF AlreadyProcessed(row)
          THEN /\ EndRun(pmid, "already_processed", "")
               /\ UNCHANGED text
          ELSE IF ~gate_bound
          THEN /\ EndRun(pmid, "name_error", "")       \* NameError, line 93
               /\ UNCHANGED text
          ELSE IF ~is_subscription_active(subscription_status)
          THEN /\ EndRun(pmid, "inactive", "")
               /\ UNCHANGED text
          ELSE /\ \/ /\ txn.state = "CAPTURE_MIN"
                     /\ text' = [text EXCEPT ![pmid] = cls]
                  \/ /\ txn.state # "CAPTURE_MIN"
                     /\ UNCHANGED text
               /\ LET used == IF txn.state = "CAPTURE_MIN" THEN ai
                               ELSE "unused"
                  IN IF next.pc = "raise"
                     THEN EndRunWith(pmid, "raised", next.path, used)
                     ELSE Continue([next EXCEPT !.ai = used])
    /\ UNCHANGED <<dbvars, gate_bound, subscription_status, qtvars, runvars,
                   smvars, sndvars, sent,
                   enqueued, webhook, admin, ndeliveries, nfail, advances>>

(***************************************************************************)
(* adapters/whatsapp/sender.py: what a call of send_text_message can give  *)
(* its caller: a provider id, None (accepted, no id in the answer,         *)
(* lines 96-110), or an exception (lines 112-136).                         *)
(***************************************************************************)
SendResults == {"id", "none", "raise"}

Accepted(res, kind, src, by) ==
    /\ res = "raise" \/ Len(sent) < MaxSends
    /\ sent' = IF res = "raise" THEN sent
               ELSE Append(sent,
                      [kind |-> kind, src |-> src, by |-> by,
                       id |-> IF res = "id" THEN ProviderId(Len(sent) + 1)
                              ELSE NULL,
                       \* history: sent by a run that started after a run
                       \* for the same message had returned normally
                       after_ok |-> by = "processor" /\ worker.after_ok])

\* The outbound Message row the handler adds after a send that gave an id.
WithOutbound(txn, kind) ==
    [txn EXCEPT !.out = kind, !.out_id = ProviderId(Len(sent) + 1)]

\* the INBOUND branch treating a send that raised like one with no id
AfterPrompt_commits_anyway(res, txn) ==
    IF res = "id" THEN [pc |-> "commit", txn |-> WithOutbound(txn, "prompt")]
    ELSE [pc |-> "commit", txn |-> txn]

\* handlers.py:171-199: the data-capture prompt was sent
AfterPrompt(res, txn) ==
    IF res = "raise" THEN [pc |-> "raise"]
    ELSE IF res = "id" THEN [pc |-> "commit", txn |-> WithOutbound(txn, "prompt")]
    ELSE [pc |-> "commit", txn |-> txn]

\* handlers.py:240-261, 313-334, 509-529, 402-422: an error text or the
\* acknowledgement was sent; an exception is logged and not raised again
AfterNotice(res, txn, kind) ==
    IF res = "id" THEN [pc |-> "commit", txn |-> WithOutbound(txn, kind)]
    ELSE [pc |-> "return"]

\* the auto branch committing after a send that gave no provider id
AfterQuote_commits_without_id(res, txn) ==
    IF res = "raise" THEN [pc |-> "raise"]
    ELSE [pc |-> "commit", txn |->
            [(IF res = "id" THEN WithOutbound(txn, "quote") ELSE txn) EXCEPT
                !.state = transition(txn.state, "quote_auto_ok"),
                !.quote = "sent"]]

\* the auto branch leaving the quote in DRAFT after the send
AfterQuote_stays_draft(res, txn) ==
    IF res # "id" THEN [pc |-> "raise"]
    ELSE [pc |-> "commit", txn |->
            [WithOutbound(txn, "quote") EXCEPT
                !.state = transition(txn.state, "quote_auto_ok")]]

\* handlers.py:447-499: the quote message was sent
AfterQuote(res, txn) ==
    IF res # "id" THEN [pc |-> "raise"]
    ELSE IF transition(txn.state, "quote_auto_ok") = StateMachineError
    THEN [pc |-> "raise"]
    ELSE [pc |-> "commit", txn |->
            [WithOutbound(txn, "quote") EXCEPT
                !.state = transition(txn.state, "quote_auto_ok"),
                !.quote = "sent"]]

\* The send of a run and what the handler does with its result, up to the
\* commit.
ProcSend(res) ==
    /\ worker.pc = "send"
    /\ Accepted(res, worker.path, worker.pmid, "processor")
    /\ LET after == IF worker.path = "prompt" THEN AfterPrompt(res, worker.txn)
                    ELSE IF worker.path = "quote"
                         THEN AfterQuote(res, worker.txn)
                    ELSE AfterNotice(res, worker.txn, worker.path)
       IN IF after.pc = "raise"
          THEN EndRun(worker.pmid, "raised", worker.path)
          ELSE IF after.pc = "return"
          THEN EndRun(worker.pmid, "returned", worker.path)
          ELSE Continue([worker EXCEPT !.pc = "commit", !.txn = after.txn,
                   !.sent_id = IF res = "id" THEN ProviderId(Len(sent) + 1)
                               ELSE NULL])
    /\ UNCHANGED <<dbvars, envvars, qtvars, runvars, smvars, sndvars, enqueued, webhook, admin,
                   ndeliveries, nfail, advances>>

(***************************************************************************)
(* db.commit(): the pending writes of a session become rows.               *)
(***************************************************************************)
TxnContactId(txn) ==
    IF txn.contact_new THEN Len(contacts) + 1 ELSE txn.contact_id

TxnConversationId(txn) ==
    IF txn.conv_new THEN Len(conversations) + 1 ELSE txn.conv_id

\* the constraints the database checks: uq_contacts_tenant_phone
CommitAllowed(txn) ==
    txn.contact_new => ContactInsertAllowed(Phone)

ApprovalRows(n, quote_id) ==
    [i \in 1..n |-> [quote_id |-> quote_id, status |-> "pending",
                     approved_by |-> ""]]

ApplyTxn(txn, pmid) ==
    /\ contacts' = IF txn.contact_new
                   THEN Append(contacts, [phone |-> Phone]) ELSE contacts
    /\ conversations' =
          IF txn.conv_new
          THEN Append(conversations, [contact_id |-> TxnContactId(txn),
                                      channel_id |-> Channel,
                                      state |-> txn.state])
          ELSE IF txn.conv_id # NULL /\ txn.state # txn.from
          THEN [conversations EXCEPT ![txn.conv_id].state = txn.state]
          ELSE conversations
    /\ LET row == MessageByProviderId(pmid)
           stamped == IF txn.stamp /\ row # NULL
                      THEN [messages EXCEPT ![row].conversation_id =
                                TxnConversationId(txn)]
                      ELSE messages
       IN messages' =
             IF txn.out = "" THEN stamped
             ELSE Append(stamped,
                    [pmid |-> txn.out_id, direction |-> "outbound",
                     conversation_id |-> TxnConversationId(txn),
                     kind |-> txn.out])
    /\ quotes' = IF txn.quote = "" THEN quotes
                 ELSE Append(quotes,
                        [conversation_id |-> TxnConversationId(txn),
                         status |-> txn.quote, gated |-> txn.gated])
    /\ approvals' = approvals \o ApprovalRows(txn.napprovals, Len(quotes) + 1)

\* the state change a commit makes durable, for the history
Advance(txn, pmid) ==
    IF txn.state # txn.from
    THEN <<[pmid |-> pmid, from |-> txn.from, to |-> txn.state,
            out_id |-> txn.out_id]>>
    ELSE <<>>

\* handlers.py:258-261, 331-334, 420-422, 527-529 catch a failed commit of
\* an error text or of the acknowledgement; 209-216 and 539-546 roll back
\* and raise every other one.
AfterCommitFailure(path) ==
    IF path \in {"clarify", "notfound", "error", "ack"} THEN "returned"
    ELSE "raised"

\* handlers.py:202 (prompt), 257, 330, 526 (error texts), 392 and 419
\* (approval), 486 (quote), 533 (other states): db.commit()
ProcCommit(dbok) ==
    /\ worker.pc = "commit"
    /\ dbok \/ nfail < MaxCommitFailures
    /\ nfail' = IF dbok THEN nfail ELSE nfail + 1
    /\ LET txn == worker.txn
           pmid == worker.pmid
       IN IF dbok /\ CommitAllowed(txn)
          THEN /\ ApplyTxn(txn, pmid)
               /\ advances' = advances \o Advance(txn, pmid)
               /\ IF worker.path = "approval"
                  THEN Continue([worker EXCEPT !.pc = "send",
                             !.path = "ack", !.sent_id = NULL,
                             !.txn = [EmptyTxn EXCEPT
                                 !.contact_id = TxnContactId(txn),
                                 !.conv_id = TxnConversationId(txn),
                                 !.from = txn.state, !.state = txn.state]])
                  ELSE EndRun(pmid, "returned", worker.path)
          ELSE /\ UNCHANGED <<dbvars, advances>>
               /\ EndRun(pmid, AfterCommitFailure(worker.path), worker.path)
    /\ UNCHANGED <<envvars, qtvars, runvars, smvars, sndvars, sent, enqueued, webhook, admin,
                   ndeliveries>>

(***************************************************************************)
(* app/admin/routes.py: approve_quote and reject_quote.                    *)
(***************************************************************************)
\* The approval ids a request can name: the rows, and one id with no row.
ApprovalIds == 1..(Len(approvals) + 1)

\* routes.py:247-268 and 380-393: the lookups; the rows stay loaded in the
\* session, so conversation.state is the value read here.
AdminLookup(action, approval_id) ==
    [pc |-> IF action = "approve" THEN "send" ELSE "commit",
     action |-> action,
     approval_id |-> approval_id,
     quote_id |-> approvals[approval_id].quote_id,
     conv_id |-> quotes[approvals[approval_id].quote_id].conversation_id,
     state |-> conversations[
                 quotes[approvals[approval_id].quote_id].conversation_id].state,
     new_state |-> "",
     out_id |-> NULL]

\* routes.py:251-252, 384-385: the answer "Approval already <status>"
AlreadyResolved(status) == [pc |-> "idle", already |-> status]

\* approve_quote without the check of the approval's status
ApproveStart_unchecked(approval_id) ==
    /\ admin.pc = "idle"
    /\ admin' = IF approval_id \notin Rows(approvals) THEN IdleAdmin
                ELSE AdminLookup("approve", approval_id)
    /\ UNCHANGED <<dbvars, envvars, qtvars, runvars, smvars, sndvars, sent, enqueued, webhook, worker,
                   ndeliveries, nfail, succeeded, last, advances>>

\* routes.py:233-268: approve_quote up to the send
ApproveStart(approval_id) ==
    /\ admin.pc = "idle"
    /\ admin' = IF approval_id \notin Rows(approvals) THEN IdleAdmin  \* 404
                ELSE IF approvals[approval_id].status # "pending"
                THEN AlreadyResolved(approvals[approval_id].status)
                ELSE AdminLookup("approve", approval_id)
    /\ UNCHANGED <<dbvars, envvars, qtvars, runvars, smvars, sndvars, sent, enqueued, webhook, worker,
                   ndeliveries, nfail, succeeded, last, advances>>

\* approve_quote keeping the conversation's state after the send
ApproveSend_keeps_state(res) ==
    /\ admin.pc = "send"
    /\ Accepted(res, "quote", admin.approval_id, "approve")
    /\ admin' =
          IF res # "id" THEN IdleAdmin
          ELSE [admin EXCEPT !.pc = "commit",
                   !.new_state = admin.state,
                   !.out_id = ProviderId(Len(sent) + 1)]
    /\ UNCHANGED <<dbvars, envvars, qtvars, runvars, smvars, sndvars, enqueued, webhook, worker,
                   ndeliveries, nfail, succeeded, last, advances>>

\* routes.py:270-348: the send, then the changes made in the session
ApproveSend(res) ==
    /\ admin.pc = "send"
    /\ Accepted(res, "quote", admin.approval_id, "approve")
    /\ admin' =
          IF res # "id" THEN IdleAdmin                     \* HTTP 500
          ELSE IF transition(admin.state, "admin_approved") = StateMachineError
          THEN IdleAdmin                     \* rollback, HTTP 500
          ELSE [admin EXCEPT !.pc = "commit",
                   !.new_state = transition(admin.state, "admin_approved"),
                   !.out_id = ProviderId(Len(sent) + 1)]
    /\ UNCHANGED <<dbvars, envvars, qtvars, runvars, smvars, sndvars, enqueued, webhook, worker,
                   ndeliveries, nfail, succeeded, last, advances>>

\* reject_quote keeping the conversation's state
RejectStart_keeps_state(approval_id) ==
    /\ admin.pc = "idle"
    /\ admin' =
          IF approval_id \notin Rows(approvals) THEN IdleAdmin
          ELSE IF approvals[approval_id].status # "pending"
          THEN AlreadyResolved(approvals[approval_id].status)
          ELSE [AdminLookup("reject", approval_id) EXCEPT !.new_state =
                   AdminLookup("reject", approval_id).state]
    /\ UNCHANGED <<dbvars, envvars, qtvars, runvars, smvars, sndvars, sent, enqueued, webhook, worker,
                   ndeliveries, nfail, succeeded, last, advances>>

\* routes.py:366-418: reject_quote up to the commit
RejectStart(approval_id) ==
    /\ admin.pc = "idle"
    /\ admin' =
          IF approval_id \notin Rows(approvals) THEN IdleAdmin      \* 404
          ELSE IF approvals[approval_id].status # "pending"
          THEN AlreadyResolved(approvals[approval_id].status)
          ELSE IF transition(AdminLookup("reject", approval_id).state,
                             "admin_rejected") = StateMachineError
          THEN IdleAdmin                     \* rollback, HTTP 500
          ELSE [AdminLookup("reject", approval_id) EXCEPT !.new_state =
                   transition(AdminLookup("reject", approval_id).state,
                              "admin_rejected")]
    /\ UNCHANGED <<dbvars, envvars, qtvars, runvars, smvars, sndvars, sent, enqueued, webhook, worker,
                   ndeliveries, nfail, succeeded, last, advances>>

\* a commit that writes the approval and the conversation and leaves the
\* quote as it was
AdminCommit_without_quote(dbok) ==
    /\ admin.pc = "commit"
    /\ dbok \/ nfail < MaxCommitFailures
    /\ nfail' = IF dbok THEN nfail ELSE nfail + 1
    /\ admin' = IdleAdmin
    /\ IF ~dbok THEN UNCHANGED dbvars
       ELSE /\ approvals' = [approvals EXCEPT ![admin.approval_id] =
                  [@ EXCEPT !.status = IF admin.action = "approve"
                                       THEN "approved" ELSE "rejected",
                            !.approved_by = "user"]]
            /\ conversations' = [conversations EXCEPT
                  ![admin.conv_id].state = admin.new_state]
            /\ quotes' = quotes
            /\ messages' =
                  IF admin.action = "approve"
                  THEN Append(messages,
                         [pmid |-> admin.out_id, direction |-> "outbound",
                          conversation_id |-> admin.conv_id, kind |-> "quote"])
                  ELSE messages
            /\ UNCHANGED contacts
    /\ UNCHANGED <<envvars, qtvars, runvars, smvars, sndvars, sent, enqueued, webhook, worker,
                   ndeliveries, succeeded, last, advances>>

\* routes.py:351 and 420: db.commit(), or rollback and HTTP 500
AdminCommit(dbok) ==
    /\ admin.pc = "commit"
    /\ dbok \/ nfail < MaxCommitFailures
    /\ nfail' = IF dbok THEN nfail ELSE nfail + 1
    /\ admin' = IdleAdmin
    /\ IF ~dbok THEN UNCHANGED dbvars
       ELSE /\ approvals' = [approvals EXCEPT ![admin.approval_id] =
                  [@ EXCEPT !.status = IF admin.action = "approve"
                                       THEN "approved" ELSE "rejected",
                            !.approved_by = "user"]]
            /\ conversations' = [conversations EXCEPT
                  ![admin.conv_id].state = admin.new_state]
            /\ quotes' = [quotes EXCEPT ![admin.quote_id].status =
                  IF admin.action = "approve" THEN "sent" ELSE "lost"]
            /\ messages' =
                  IF admin.action = "approve"
                  THEN Append(messages,
                         [pmid |-> admin.out_id, direction |-> "outbound",
                          conversation_id |-> admin.conv_id, kind |-> "quote"])
                  ELSE messages
            /\ UNCHANGED contacts
    /\ UNCHANGED <<envvars, qtvars, runvars, smvars, sndvars, sent, enqueued, webhook, worker,
                   ndeliveries, succeeded, last, advances>>

(***************************************************************************)
(* The processor and the admin requests.  The job queue delivers at least  *)
(* once, so a run may start for any message id at any time.                *)
(***************************************************************************)
Next ==
    \/ \E pmid \in JobIds, ai \in AIResults :
          \E cls \in (IF text[pmid] = "unread" THEN Contents
                      ELSE {text[pmid]}) :
              ProcStart(pmid, ai, cls)
    \/ \E res \in SendResults : ProcSend(res)
    \/ \E dbok \in BOOLEAN : ProcCommit(dbok)
    \/ \E approval_id \in ApprovalIds : ApproveStart(approval_id)
    \/ \E res \in SendResults : ApproveSend(res)
    \/ \E approval_id \in ApprovalIds : RejectStart(approval_id)
    \/ \E dbok \in BOOLEAN : AdminCommit(dbok)

Spec == Init /\ [][Next]_vars

(***************************************************************************)
(* A caller of transition(): it holds a state, calls transition with an    *)
(* event and assigns the result, as handlers.py:158-162 does.              *)
(***************************************************************************)
InitEmpty ==
    /\ gate_bound = TRUE
    /\ subscription_status = "active"
    /\ contacts = <<>> /\ conversations = <<>>
    /\ quotes = <<>> /\ approvals = <<>>
    /\ messages = <<>>
    /\ enqueued = [p \in WebhookIds |-> 0]
    /\ InitRest

InitTransitions ==
    /\ InitEmpty
    /\ InitSend
    /\ InitQuoteOff
    /\ sm_pc = "ready"
    /\ sm_state \in ConversationState
    /\ sm_event \in Event
    /\ sm_result = "none"
    /\ sm_path = <<sm_state>>

\* new_state = transition(conversation.state, event)
CallTransition ==
    /\ sm_pc = "ready"
    /\ sm_result' = transition(sm_state, sm_event)
    /\ sm_pc' = "called"
    /\ UNCHANGED <<sm_state, sm_event, sm_path>>
    /\ UNCHANGED <<dbvars, envvars, qtvars, runvars, sndvars, sent, enqueued, webhook, worker,
                   admin,
                   ndeliveries, nfail, succeeded, last, advances>>

\* conversation.state = new_state, skipped when the call raised; then the
\* next event arrives.
AssignState(event) ==
    /\ sm_pc = "called"
    /\ sm_state' = IF sm_result = StateMachineError THEN sm_state
                   ELSE sm_result
    /\ sm_path' = IF sm_result = StateMachineError THEN sm_path
                  ELSE Append(sm_path, sm_result)
    /\ sm_event' = event
    /\ sm_result' = "none"
    /\ sm_pc' = "ready"
    /\ UNCHANGED <<dbvars, envvars, qtvars, runvars, sndvars, sent, enqueued, webhook, worker,
                   admin,
                   ndeliveries, nfail, succeeded, last, advances>>

NextTransitions ==
    \/ CallTransition
    \/ \E event \in Event : AssignState(event)

SpecTransitions == InitTransitions /\ [][NextTransitions]_vars


(***************************************************************************)
(* Webhook ingestion on its own: deliveries of the provider, handled by    *)
(* requests that may run at the same time, on a database with no message.  *)
(***************************************************************************)
InitWebhook == InitEmpty /\ InitSM /\ InitSend /\ InitQuoteOff

NextWebhook ==
    \/ \E r \in Requests, pmid \in WebhookIds, meta \in WebhookMeta :
          WebhookReceive(r, pmid, meta)
    \/ \E r \in Requests, dbok \in BOOLEAN : WebhookPersist(r, dbok)
    \/ \E r \in Requests, queue_ok \in BOOLEAN : WebhookEnqueue(r, queue_ok)

SpecWebhook == InitWebhook /\ [][NextWebhook]_vars

(***************************************************************************)
(* app/adapters/whatsapp/sender.py and app/core/retry.py: one call of      *)
(* send_text_message.  Each attempt of _send gets one answer of the        *)
(* gateway.                                                                *)
(***************************************************************************)
\* sender.py:87: max_retries=3
max_retries == 3

\* What the gateway can do at one attempt: answer 2xx with or without
\* messages[0].id, time out, fail at the network, or answer 4xx or 5xx.
Status4xx == {"400", "429"}
Status5xx == {"500", "503"}
GatewayAnswers ==
    {"2xx_id", "2xx_no_id", "timeout", "network"} \cup Status4xx \cup Status5xx

\* sender.py:65-80: what _send returns or raises for an answer
SendOutcome(answer) ==
    IF answer = "2xx_id" THEN "id"
    ELSE IF answer = "2xx_no_id" THEN "None"
    ELSE IF answer = "timeout" THEN "TimeoutException"
    ELSE IF answer = "network" THEN "NetworkError"
    ELSE "HTTPStatusError"   \* raise_for_status (5xx), raised by hand (4xx)

\* retry_with_backoff's default: every exception is retried
Retryable_any(exception) == TRUE

\* sender.py:89-92: retryable_exceptions
Retryable(exception) == exception \in {"TimeoutException", "NetworkError"}

\* retry.py:38-59 and sender.py:84-136: one turn of the loop
SendAttempt(answer) ==
    /\ snd_pc = "calling"
    /\ snd_answers' = Append(snd_answers, answer)
    /\ LET outcome == SendOutcome(answer)
       IN IF outcome \in {"id", "None"}
          THEN /\ snd_pc' = "returned"
               /\ snd_result' = outcome
               /\ UNCHANGED snd_attempt
          ELSE IF Retryable(outcome) /\ snd_attempt < max_retries
          THEN /\ snd_attempt' = snd_attempt + 1
               /\ UNCHANGED <<snd_pc, snd_result>>
          ELSE /\ snd_pc' = "raised"
               /\ snd_result' = outcome
               /\ UNCHANGED snd_attempt
    /\ UNCHANGED <<dbvars, envvars, qtvars, runvars, smvars, sent, enqueued, webhook, worker,
                   admin, ndeliveries, nfail, succeeded, last, advances>>

InitSender ==
    /\ InitEmpty
    /\ InitSM
    /\ InitQuoteOff
    /\ snd_pc = "calling"
    /\ snd_attempt = 0
    /\ snd_answers = <<>>
    /\ snd_result = "none"

NextSender == \E answer \in GatewayAnswers : SendAttempt(answer)

SpecSender == InitSender /\ [][NextSender]_vars


(***************************************************************************)
(* app/domain/pricing.py, freight.py and quote.py: the engines the         *)
(* processor calls, as functions of the tenant's configuration tables.     *)
(*                                                                         *)
(* A Decimal amount of money is an integer count of 1/10000 of a real, a   *)
(* percentage (Numeric(5, 4), 0.05 for 5%) an integer count of hundredths. *)
(* Every amount of the model has fewer than ten significant digits, so the *)
(* float() and Decimal(str()) conversions of pricing.py:154-181 and        *)
(* quote.py:133-160 give back the value they are given.                    *)
(***************************************************************************)
Dec(reais) == reais * 10000

\* Python's truth value of an optional Decimal: None and 0 are false
Truthy(value) == value # Unset /\ value # 0

\* ORDER BY min_quantity DESC.  The order of rows with the same
\* min_quantity is the database's choice: tie says which of them is first.
RECURSIVE order_by_desc(_, _)
order_by_desc(rows, tie) ==
    IF rows = {} THEN <<>>
    ELSE LET top == {r \in rows :
                        \A o \in rows : r.min_quantity >= o.min_quantity}
             first == CHOOSE r \in top : \A o \in top :
                         IF tie THEN r.discount_pct >= o.discount_pct
                         ELSE r.discount_pct =< o.discount_pct
         IN <<first>> \o order_by_desc(rows \ {first}, tie)

\* pricing.py:63-76: the two queries of calculate_item_price
item_discounts(db, item_id, tie) ==
    order_by_desc({d \in db.volume_discounts : d.item_id = item_id}, tie)

global_discounts(db, tie) ==
    order_by_desc({d \in db.volume_discounts : d.item_id = NULL}, tie)

\* pricing.py:80-83 and 87-90: the loop that stops at the first discount
\* whose min_quantity the quantity reaches
RECURSIVE first_matching(_, _, _)
first_matching(discounts, quantity, i) ==
    IF i \notin DOMAIN discounts THEN 0
    ELSE IF quantity >= discounts[i].min_quantity
         THEN discounts[i].discount_pct
         ELSE first_matching(discounts, quantity, i + 1)

\* pricing.py:21-99 calculate_item_price
calculate_item_price(db, item_id, quantity, tie) ==
    LET base_price == db.tenant_items[item_id]
        item_pct ==
            first_matching(item_discounts(db, item_id, tie), quantity, 1)
        best_discount_pct ==
            IF item_pct = 0
            THEN first_matching(global_discounts(db, tie), quantity, 1)
            ELSE item_pct
        unit_price ==
            IF best_discount_pct > 0
            THEN base_price - (base_price * best_discount_pct) \div 100
            ELSE base_price
    IN IF base_price = Unset THEN [raised |-> "PricingError"]
       ELSE [raised |-> "", unit_price |-> unit_price,
             total_price |-> unit_price * quantity]

\* str.upper() on the payment methods of the model
PaymentMethods == {"PIX", "pix", "Pix", "PIX ", "Boleto", "Cartao"}

upper(s) ==
    CASE s \in {"PIX", "pix", "Pix"} -> "PIX"
      [] s = "PIX " -> "PIX "
      [] s = "Boleto" -> "BOLETO"
      [] s = "Cartao" -> "CARTAO"

\* a comparison that forgets the case of the payment method
is_pix_exact(payment_method) == payment_method = "PIX"

\* pricing.py:163
is_pix(payment_method) == upper(payment_method) = "PIX"

RECURSIVE sum_totals(_, _)
sum_totals(lines, i) ==
    IF i \notin DOMAIN lines THEN 0
    ELSE lines[i].total_price + sum_totals(lines, i + 1)

\* pricing.py:102-182 calculate_quote_totals; ties[i] is the database's
\* choice in the call of calculate_item_price for the i-th line
calculate_quote_totals(db, items, payment_method, ties) ==
    IF db.pricing_rules = <<>> THEN [raised |-> "PricingError"]
    ELSE
      LET pricing_rules == db.pricing_rules[1]
          lines == [i \in DOMAIN items |->
                      calculate_item_price(db, items[i].item_id,
                          items[i].quantity, ties[i])]
      IN IF \E i \in DOMAIN lines : lines[i].raised # ""
         THEN [raised |-> "PricingError"]
         ELSE
           LET subtotal == sum_totals(lines, 1)
               discount_pct == IF is_pix(payment_method)
                               THEN pricing_rules.pix_discount_pct ELSE 0
               discount_amount == (subtotal * discount_pct) \div 100
           IN [raised |-> "",
               items |-> lines,
               subtotal |-> subtotal,
               discount_pct |-> discount_pct,
               discount_amount |-> discount_amount,
               total |-> subtotal - discount_amount,
               margin_pct |-> pricing_rules.margin_min_pct]

(***************************************************************************)
(* app/domain/freight.py.  A string is the sequence of its characters.     *)
(***************************************************************************)
Digits == <<"0", "1", "2", "3", "4", "5", "6", "7", "8", "9">>

isdigit(c) == \E i \in DOMAIN Digits : Digits[i] = c

\* the code point order of the characters of the model: "-" is below the
\* digits, the digits are below the letters
ord(c) ==
    IF c = "-" THEN 45
    ELSE IF isdigit(c) THEN 47 + (CHOOSE i \in DOMAIN Digits : Digits[i] = c)
    ELSE 99

\* NULL in a string column
NoString == <<"None">>

\* freight.py:21-30 normalize_cep
normalize_cep(cep) == SelectSeq(cep, isdigit)

\* Python's a <= b on strings
RECURSIVE str_le(_, _)
str_le(a, b) ==
    IF a = <<>> THEN TRUE
    ELSE IF b = <<>> THEN FALSE
    ELSE IF ord(Head(a)) < ord(Head(b)) THEN TRUE
    ELSE IF ord(Head(a)) > ord(Head(b)) THEN FALSE
    ELSE str_le(Tail(a), Tail(b))

\* freight.py:33-48 cep_in_range
cep_in_range(cep, start, end) ==
    /\ str_le(normalize_cep(start), normalize_cep(cep))
    /\ str_le(normalize_cep(cep), normalize_cep(end))

\* the orders in which a query without ORDER BY can give the rows
AnyOrder(rows) ==
    {f \in [1..Cardinality(rows) -> rows] :
        \A r \in rows : \E i \in DOMAIN f : f[i] = r}

\* freight.py:92-99: the first rule of the list whose range holds the CEP
RECURSIVE first_in_range(_, _, _)
first_in_range(all_rules, cep_normalized, i) ==
    IF i \notin DOMAIN all_rules THEN NULL
    ELSE IF /\ all_rules[i].cep_range_start # <<>>
            /\ all_rules[i].cep_range_end # NoString
            /\ all_rules[i].cep_range_end # <<>>
            /\ cep_in_range(cep_normalized, all_rules[i].cep_range_start,
                            all_rules[i].cep_range_end)
         THEN i
         ELSE first_in_range(all_rules, cep_normalized, i + 1)

\* freight.py:106-114: the cost a rule gives
rule_cost(freight_rule, total_weight_kg) ==
    IF Truthy(freight_rule.per_kg_additional) /\ Truthy(total_weight_kg)
    THEN freight_rule.base_freight
         + freight_rule.per_kg_additional * total_weight_kg
    ELSE freight_rule.base_freight

\* a resolution that tries the postal-code ranges before the neighborhoods
calculate_freight_ranges_first(by_bairro, all_rules, cep_or_bairro, total_weight_kg) ==
    LET hit == IF \E i \in DOMAIN cep_or_bairro : isdigit(cep_or_bairro[i])
               THEN first_in_range(all_rules,
                                   normalize_cep(cep_or_bairro), 1)
               ELSE NULL
    IN IF hit # NULL
       THEN [raised |-> "", rule |-> all_rules[hit],
             cost |-> rule_cost(all_rules[hit], total_weight_kg)]
       ELSE IF by_bairro # <<>>
       THEN [raised |-> "", rule |-> by_bairro[1],
             cost |-> rule_cost(by_bairro[1], total_weight_kg)]
       ELSE [raised |-> "FreightError"]

\* freight.py:51-114 calculate_freight; by_bairro is what the query of lines
\* 72-76 gave, all_rules what the query of lines 85-90 gave
calculate_freight(by_bairro, all_rules, cep_or_bairro, total_weight_kg) ==
    IF by_bairro # <<>>
    THEN [raised |-> "", rule |-> by_bairro[1],
          cost |-> rule_cost(by_bairro[1], total_weight_kg)]
    ELSE
      LET hit == IF \E i \in DOMAIN cep_or_bairro : isdigit(cep_or_bairro[i])
                 THEN first_in_range(all_rules,
                                     normalize_cep(cep_or_bairro), 1)
                 ELSE NULL
      IN IF hit = NULL THEN [raised |-> "FreightError"]
         ELSE [raised |-> "", rule |-> all_rules[hit],
               cost |-> rule_cost(all_rules[hit], total_weight_kg)]

\* freight.py:72-76: the rules whose bairro is the input, in any order
rules_by_bairro(db, cep_or_bairro) ==
    AnyOrder({r \in db.freight_rules : r.bairro = cep_or_bairro})

\* freight.py:85-90: the rules with a cep_range_start, in any order
rules_with_range(db) ==
    AnyOrder({r \in db.freight_rules : r.cep_range_start # NoString})

(***************************************************************************)
(* app/domain/quote.py                                                     *)
(***************************************************************************)
\* quote.py:58, 67: "pricing_rules.approval_threshold_total and ..."
Configured(threshold) == Truthy(threshold)

\* quote.py:24-77 check_approval_required; reason is the list of the
\* reasons that "; ".join makes the text of
check_approval_required(db, total, margin_pct, unknown) ==
    IF db.pricing_rules = <<>>
    THEN [needs_approval |-> TRUE, reason |-> <<"Pricing rules not found">>]
    ELSE
      LET pricing_rules == db.pricing_rules[1]
          reasons ==
            (IF unknown # <<>> THEN <<"Unknown SKUs">> ELSE <<>>)
            \o (IF /\ Configured(pricing_rules.approval_threshold_total)
                   /\ total > pricing_rules.approval_threshold_total
                THEN <<"Total exceeds threshold">> ELSE <<>>)
            \o (IF /\ Configured(pricing_rules.approval_threshold_margin)
                   /\ margin_pct < pricing_rules.approval_threshold_margin
                THEN <<"Margin below threshold">> ELSE <<>>)
      IN [needs_approval |-> reasons # <<>>, reason |-> reasons]

\* a generate_quote for which a freight failure is fatal
after_freight_fatal(pricing_result, fr, check) ==
    IF fr.raised # "" THEN [raised |-> "QuoteGenerationError"]
    ELSE [raised |-> "",
          quote |-> [status |-> "draft",
                     subtotal |-> pricing_result.subtotal,
                     freight |-> fr.cost,
                     discount_pct |-> pricing_result.discount_pct,
                     total |-> pricing_result.total + fr.cost,
                     margin_pct |-> pricing_result.margin_pct],
          needs_approval |-> check.needs_approval,
          approvals |-> IF check.needs_approval
                        THEN <<[status |-> "pending", reason |-> check.reason]>>
                        ELSE <<>>]

\* quote.py:121-189: generate_quote after the pricing: fr is what
\* calculate_freight gave, check what check_approval_required gives for the
\* total with that freight
after_freight(pricing_result, fr, check) ==
    LET freight == IF fr.raised # "" THEN 0 ELSE fr.cost
        needs == IF fr.raised # "" THEN TRUE ELSE check.needs_approval
        approval_reason == IF fr.raised # ""
                           THEN <<"Freight calculation failed">>
                           ELSE check.reason
    IN [raised |-> "",
        quote |-> [status |-> "draft",
                   subtotal |-> pricing_result.subtotal,
                   freight |-> freight,
                   discount_pct |-> pricing_result.discount_pct,
                   total |-> pricing_result.total + freight,
                   margin_pct |-> pricing_result.margin_pct],
        needs_approval |-> needs,
        approvals |-> IF needs
                      THEN <<[status |-> "pending", reason |-> approval_reason]>>
                      ELSE <<>>]

\* quote.py:80-189 generate_quote
generate_quote(db, items, cep_or_bairro, payment_method, ties, by_bairro, all_rules) ==
    LET pricing_result ==
            calculate_quote_totals(db, items, payment_method, ties)
    IN IF pricing_result.raised # ""
       THEN [raised |-> "QuoteGenerationError"]
       ELSE
         LET fr == calculate_freight(by_bairro, all_rules, cep_or_bairro,
                                     Unset)
             check == IF fr.raised # "" THEN [needs_approval |-> TRUE,
                                              reason |-> <<>>]
                      ELSE check_approval_required(db,
                               pricing_result.total + fr.cost,
                               pricing_result.margin_pct, <<>>)
         IN after_freight(pricing_result, fr, check)

(***************************************************************************)
(* A caller of the engines: a tenant whose configuration is one of a few,  *)
(* and calls with arguments out of small sets.                             *)
(***************************************************************************)
PricingRuleRow(pix, margin_min, threshold_total, threshold_margin) ==
    [pix_discount_pct |-> pix, margin_min_pct |-> margin_min,
     approval_threshold_total |-> threshold_total,
     approval_threshold_margin |-> threshold_margin]

\* the pricing_rules table: unique per tenant, so no row or one
PricingRules ==
    {<<>>} \cup
    {<<PricingRuleRow(pix, margin_min, threshold_total, threshold_margin)>> :
        pix \in {0, 5}, margin_min \in {10, 30},
        threshold_total \in {Unset, 0, Dec(500)},
        threshold_margin \in {Unset, 0, 20}}

PlainPricingRules ==
    {<<>>} \cup {<<PricingRuleRow(pix, 30, Unset, Unset)>> : pix \in {0, 5}}

TenantItems ==
    {[i \in ItemIds |-> IF i = 1 THEN Dec(45) ELSE price] :
        price \in {Dec(90), Unset}}

VolumeDiscountRow(item_id, min_quantity, discount_pct) ==
    [item_id |-> item_id, min_quantity |-> min_quantity,
     discount_pct |-> discount_pct]

VolumeDiscounts ==
    {VolumeDiscountRow(1, 20, 10), VolumeDiscountRow(1, 20, 20),
     VolumeDiscountRow(1, 40, 0), VolumeDiscountRow(2, 20, 10),
     VolumeDiscountRow(NULL, 30, 15), VolumeDiscountRow(NULL, 50, 5)}

Quantities == {2, 10, 20, 30, 40, 50}

Line(item_id, quantity) == [item_id |-> item_id, quantity |-> quantity]

ItemLists ==
    {<<>>, <<Line(1, 10)>>, <<Line(1, 20)>>, <<Line(1, 50)>>,
     <<Line(1, 10), Line(2, 2)>>, <<Line(1, 40), Line(2, 20)>>}

FreightRuleRow(bairro, start, end, base_freight, per_kg_additional) ==
    [bairro |-> bairro, cep_range_start |-> start, cep_range_end |-> end,
     base_freight |-> base_freight, per_kg_additional |-> per_kg_additional]

FreightRules ==
    {FreightRuleRow(<<"c">>, NoString, NoString, Dec(40), Unset),
     FreightRuleRow(<<"c", "1">>, NoString, NoString, Dec(30), Dec(2)),
     FreightRuleRow(NoString, <<"1", "-", "0">>, <<"1", "-", "9">>,
                    Dec(50), Unset),
     FreightRuleRow(NoString, <<"0">>, <<"2", "0">>, Dec(60), 0),
     FreightRuleRow(NoString, <<"3">>, NoString, Dec(70), Unset)}

Locations ==
    {<<"c">>, <<"c", "1">>, <<"d">>, <<"1", "-", "5">>, <<"1", "5">>,
     <<"2", "-", "5">>, <<"9">>}

Weights == {Unset, 0, 10}

Elsewhere ==
    <<dbvars, envvars, smvars, sndvars, runvars, sent, enqueued, webhook,
      worker, admin, ndeliveries, nfail, succeeded, last, advances>>

CallCalculateItemPrice(item_id, quantity, tie) ==
    /\ q_pc = "ready"
    /\ q_pc' = "called"
    /\ q_call' = [fn |-> "calculate_item_price", item_id |-> item_id,
                  quantity |-> quantity, tie |-> tie]
    /\ q_ret' = calculate_item_price(q_db, item_id, quantity, tie)
    /\ UNCHANGED <<q_db, Elsewhere>>

CallCalculateQuoteTotals(items, payment_method, ties) ==
    /\ q_pc = "ready"
    /\ q_pc' = "called"
    /\ q_call' = [fn |-> "calculate_quote_totals", items |-> items,
                  payment_method |-> payment_method, ties |-> ties]
    /\ q_ret' = calculate_quote_totals(q_db, items, payment_method, ties)
    /\ UNCHANGED <<q_db, Elsewhere>>

CallCalculateFreight(cep_or_bairro, total_weight_kg, by_bairro, all_rules) ==
    /\ q_pc = "ready"
    /\ q_pc' = "called"
    /\ q_call' = [fn |-> "calculate_freight",
                  cep_or_bairro |-> cep_or_bairro,
                  total_weight_kg |-> total_weight_kg]
    /\ q_ret' = calculate_freight(by_bairro, all_rules, cep_or_bairro,
                                  total_weight_kg)
    /\ UNCHANGED <<q_db, Elsewhere>>

CallCheckApprovalRequired(total, margin_pct, unknown) ==
    /\ q_pc = "ready"
    /\ q_pc' = "called"
    /\ q_call' = [fn |-> "check_approval_required", total |-> total,
                  margin_pct |-> margin_pct, unknown |-> unknown]
    /\ q_ret' = check_approval_required(q_db, total, margin_pct, unknown)
    /\ UNCHANGED <<q_db, Elsewhere>>

\* history, in q_call: what the pricing and the freight engine gave
\* generate_quote
CallGenerateQuote(items, cep_or_bairro, payment_method, ties, by_bairro, all_rules) ==
    /\ q_pc = "ready"
    /\ q_pc' = "called"
    /\ LET pricing_result ==
               calculate_quote_totals(q_db, items, payment_method, ties)
       IN q_call' = [fn |-> "generate_quote", items |-> items,
                     cep_or_bairro |-> cep_or_bairro,
                     payment_method |-> payment_method,
                     pricing |-> pricing_result,
                     freight |->
                        IF pricing_result.raised # ""
                        THEN [raised |-> "not called"]
                        ELSE calculate_freight(by_bairro, all_rules,
                                               cep_or_bairro, Unset)]
    /\ q_ret' = generate_quote(q_db, items, cep_or_bairro, payment_method,
                               ties, by_bairro, all_rules)
    /\ UNCHANGED <<q_db, Elsewhere>>

\* handlers.py:349-380: what the handler does with generate_quote's result
\* before it chooses its branch: it adds its own reasons, and an Approval
\* row of its own for the quote whenever approval is needed.  q_ret.approvals
\* are then the Approval rows of the quote in the session.
HandleQuote(unknown, requires_approval) ==
    /\ q_pc = "called"
    /\ q_call.fn = "generate_quote"
    /\ q_ret.raised = ""
    /\ q_pc' = "handled"
    /\ q_call' = [q_call EXCEPT !.fn = "process_inbound_event"]
    /\ LET needs == needs_approval(q_ret.needs_approval, unknown,
                                   requires_approval)
           parts == (IF unknown THEN <<"Unknown SKUs">> ELSE <<>>)
                    \o (IF requires_approval THEN <<"IA utilizada">>
                        ELSE <<>>)
           approval_reason == IF parts = <<>> THEN <<"Aprovacao requerida">>
                              ELSE parts
       IN q_ret' = [q_ret EXCEPT
              !.needs_approval = needs,
              !.approvals = IF needs
                            THEN Append(@, [status |-> "pending",
                                            reason |-> approval_reason])
                            ELSE @]
    /\ UNCHANGED <<q_db, Elsewhere>>

InitEngines ==
    /\ InitEmpty /\ InitSM /\ InitSend
    /\ q_pc = "ready"
    /\ q_call = [fn |-> "none"]
    /\ q_ret = [raised |-> "none"]

InitPricing ==
    /\ InitEngines
    /\ \E rules \in PlainPricingRules, prices \in TenantItems,
          discounts \in SUBSET VolumeDiscounts :
          q_db = [EmptyConfig EXCEPT !.pricing_rules = rules,
                                     !.tenant_items = prices,
                                     !.volume_discounts = discounts]

NextPricing ==
    \/ \E item_id \in ItemIds, quantity \in Quantities, tie \in BOOLEAN :
          CallCalculateItemPrice(item_id, quantity, tie)
    \/ \E items \in ItemLists, payment_method \in PaymentMethods :
          \E ties \in [DOMAIN items -> BOOLEAN] :
              CallCalculateQuoteTotals(items, payment_method, ties)

SpecPricing == InitPricing /\ [][NextPricing]_vars

InitFreight ==
    /\ InitEngines
    /\ \E rules \in SUBSET FreightRules :
          q_db = [EmptyConfig EXCEPT !.freight_rules = rules]

NextFreight ==
    \E cep_or_bairro \in Locations, total_weight_kg \in Weights :
       \E by_bairro \in rules_by_bairro(q_db, cep_or_bairro),
          all_rules \in rules_with_range(q_db) :
           CallCalculateFreight(cep_or_bairro, total_weight_kg,
                                by_bairro, all_rules)

SpecFreight == InitFreight /\ [][NextFreight]_vars

QuoteFreightRules ==
    {{}, {FreightRuleRow(<<"c">>, NoString, NoString, Dec(40), Unset)},
     {FreightRuleRow(NoString, <<"1", "-", "0">>, <<"1", "-", "9">>,
                     Dec(50), Unset)}}

InitQuote ==
    /\ InitEngines
    /\ \E rules \in PricingRules, prices \in TenantItems,
          discounts \in {{}, {VolumeDiscountRow(1, 20, 10)}},
          freight \in QuoteFreightRules :
          q_db = [pricing_rules |-> rules, tenant_items |-> prices,
                  volume_discounts |-> discounts, freight_rules |-> freight]

NextQuote ==
    \/ \E total \in {0, Dec(450), Dec(500), Dec(600)},
          margin_pct \in {0, 10, 20, 30},
          unknown \in {<<>>, <<"brita">>} :
          CallCheckApprovalRequired(total, margin_pct, unknown)
    \/ \E items \in ItemLists,
          cep_or_bairro \in {<<"c">>, <<"d">>, <<"1", "-", "5">>},
          payment_method \in {"PIX", "Boleto"} :
          \E ties \in [DOMAIN items -> BOOLEAN],
             by_bairro \in rules_by_bairro(q_db, cep_or_bairro),
             all_rules \in rules_with_range(q_db) :
              CallGenerateQuote(items, cep_or_bairro, payment_method, ties,
                                by_bairro, all_rules)
    \/ \E unknown \in BOOLEAN, requires_approval \in BOOLEAN :
          HandleQuote(unknown, requires_approval)

SpecQuote == InitQuote /\ [][NextQuote]_vars


(***************************************************************************)
(* Several workers run process_inbound_event at the same time, each in a   *)
(* session of its own (handlers.py:65) on the one database.  db/base.py    *)
(* creates the engine without an isolation level, so the sessions are     *)
(* PostgreSQL READ COMMITTED transactions: a query sees the committed     *)
(* rows and the session's own pending writes; an INSERT that meets         *)
(* another session's pending INSERT of the same unique key waits for that  *)
(* session to end; an UPDATE of a row another session has updated waits    *)
(* for that session to end and then goes on.  The handler takes no lock    *)
(* of its own.  A run is cut at its queries and flushes.  Each worker      *)
(* takes one job.                                                          *)
(***************************************************************************)
Active(run) == run.pc \notin {"idle", "done"}

\* a run in flight; overlap is history: a run of another worker for the
\* same provider_message_id was in flight at the same time
RunAt(pc, pmid, path, txn, overlap) ==
    [pc |-> pc, pmid |-> pmid, path |-> path, txn |-> txn,
     overlap |-> overlap]

\* the run has returned or raised; its session is closed (handlers.py:548)
Finished(run, outcome, path) ==
    [pc |-> "done", pmid |-> run.pmid, outcome |-> outcome, path |-> path,
     overlap |-> run.overlap]

\* the position a run reaches from the position the handler computes
Reach(run, next) ==
    IF next.pc = "raise" THEN Finished(run, "raised", next.path)
    ELSE RunAt(next.pc, run.pmid, next.path, next.txn, run.overlap)

\* models.py:253, uq_contacts_tenant_phone: another session holds a
\* pending insert of a contact with this phone
PendingContactInsert(w) ==
    \E v \in Workers \ {w} : Active(runs[v]) /\ runs[v].txn.contact_new

\* the rows the flush of handlers.py:153 updates, held by another session:
\* the message row (conversation_id), and the row of a conversation that
\* existed (last_message_at, handlers.py:148)
RowsHeld(w, pmid, txn) ==
    \E v \in Workers \ {w} :
        /\ Active(runs[v])
        /\ runs[v].txn.stamp
        /\ \/ runs[v].pmid = pmid
           \/ /\ ~txn.conv_new
              /\ ~runs[v].txn.conv_new
              /\ runs[v].txn.conv_id = txn.conv_id

\* handlers.py:67-106: the message is looked up, the run ends when it was
\* processed already, then the tenant, its subscription and the channel
\* are loaded
RunStart(w, pmid) ==
    /\ runs[w].pc = "idle"
    /\ LET row == MessageByProviderId(pmid)
           others == {v \in Workers \ {w} :
                         Active(runs[v]) /\ runs[v].pmid = pmid}
           begun == RunAt("contact", pmid, "", EmptyTxn, others # {})
           mine == IF row = NULL THEN Finished(begun, "not_found", "")
                   ELSE IF AlreadyProcessed(row)
                   THEN Finished(begun, "already_processed", "")
                   ELSE IF ~gate_bound
                   THEN Finished(begun, "name_error", "")
                   ELSE IF ~is_subscription_active(subscription_status)
                   THEN Finished(begun, "inactive", "")
                   ELSE begun
       IN runs' = [v \in Workers |->
                     IF v = w THEN mine
                     ELSE IF v \in others
                     THEN [runs[v] EXCEPT !.overlap = TRUE]
                     ELSE runs[v]]
    /\ UNCHANGED <<dbvars, envvars, qtvars, smvars, sndvars, sent, enqueued,
                   webhook, worker, admin, admins, ndeliveries, nfail, succeeded,
                   last, advances>>

\* handlers.py:109-121: the query for the contact
RunContact(w) ==
    /\ runs[w].pc = "contact"
    /\ LET contact_id == ContactByPhone(Phone)
       IN runs' = [runs EXCEPT ![w] =
              IF contact_id = NULL THEN [@ EXCEPT !.pc = "insert_contact"]
              ELSE [@ EXCEPT !.pc = "conversation",
                             !.txn.contact_id = contact_id]]
    /\ UNCHANGED <<dbvars, envvars, qtvars, smvars, sndvars, sent, enqueued,
                   webhook, worker, admin, admins, ndeliveries, nfail, succeeded,
                   last, advances>>

\* handlers.py:116-118: db.add(contact); db.flush().  The INSERT waits for
\* a session with a pending insert of the phone, and raises IntegrityError
\* when a contact with the phone is committed (handlers.py:539-546).
RunInsertContact(w) ==
    /\ runs[w].pc = "insert_contact"
    /\ ~PendingContactInsert(w)
    /\ runs' = [runs EXCEPT ![w] =
          IF ContactInsertAllowed(Phone)
          THEN [@ EXCEPT !.pc = "conversation", !.txn.contact_new = TRUE]
          ELSE Finished(@, "raised", "contact")]
    /\ UNCHANGED <<dbvars, envvars, qtvars, smvars, sndvars, sent, enqueued,
                   webhook, worker, admin, admins, ndeliveries, nfail, succeeded,
                   last, advances>>

\* handlers.py:124-149: the query for the conversation of the contact on
\* the channel, and the INSERT of a new one in INBOUND: no constraint of
\* models.py:256-278 makes it wait or fail
RunConversation(w) ==
    /\ runs[w].pc = "conversation"
    /\ LET txn == runs[w].txn
           conv_id == IF txn.contact_new THEN NULL
                      ELSE ConversationByContact(txn.contact_id)
           state == IF conv_id = NULL THEN "INBOUND"
                    ELSE conversations[conv_id].state
       IN runs' = [runs EXCEPT ![w] =
              [@ EXCEPT !.pc = "stamp",
                        !.txn.conv_new = (conv_id = NULL),
                        !.txn.conv_id = conv_id,
                        !.txn.from = state,
                        !.txn.state = state]]
    /\ UNCHANGED <<dbvars, envvars, qtvars, smvars, sndvars, sent, enqueued,
                   webhook, worker, admin, admins, ndeliveries, nfail, succeeded,
                   last, advances>>

\* handlers.py:152-166, 217-229, 263-392, 424-445, 531-537: the message is
\* given its conversation_id and flushed, then the handler goes by the
\* state its session loaded, up to the first send or commit
RunStamp(w, ai, cls) ==
    /\ runs[w].pc = "stamp"
    /\ LET pmid == runs[w].pmid
           txn == [runs[w].txn EXCEPT !.stamp = TRUE]
           next == IF txn.state = "INBOUND" THEN Inbound(pmid, txn)
                   ELSE IF txn.state = "CAPTURE_MIN"
                        THEN CaptureMin(pmid, txn, cls, ai)
                   ELSE Running("commit", pmid, "other", txn)
       IN /\ ~RowsHeld(w, pmid, txn)
          /\ \/ /\ txn.state = "CAPTURE_MIN"
                /\ text' = [text EXCEPT ![pmid] = cls]
             \/ /\ txn.state # "CAPTURE_MIN"
                /\ UNCHANGED text
          /\ runs' = [runs EXCEPT ![w] = Reach(@, next)]
    /\ UNCHANGED <<dbvars, gate_bound, subscription_status, qtvars, smvars,
                   sndvars, sent, enqueued, webhook, worker, admin, admins,
                   ndeliveries, nfail, succeeded, last, advances>>

\* handlers.py:171-199, 240-256, 313-329, 402-418, 447-485, 509-525: the
\* send of a run and what the handler does with its result
RunSend(w, res) ==
    /\ runs[w].pc = "send"
    /\ res = "raise" \/ Len(sent) < MaxSends
    /\ sent' = IF res = "raise" THEN sent
               ELSE Append(sent,
                      [kind |-> runs[w].path, src |-> runs[w].pmid,
                       by |-> "processor",
                       id |-> IF res = "id" THEN ProviderId(Len(sent) + 1)
                              ELSE NULL,
                       after_ok |-> FALSE])
    /\ LET run == runs[w]
           after == IF run.path = "prompt" THEN AfterPrompt(res, run.txn)
                    ELSE IF run.path = "quote" THEN AfterQuote(res, run.txn)
                    ELSE AfterNotice(res, run.txn, run.path)
       IN runs' = [runs EXCEPT ![w] =
              IF after.pc = "raise" THEN Finished(run, "raised", run.path)
              ELSE IF after.pc = "return"
              THEN Finished(run, "returned", run.path)
              ELSE [run EXCEPT !.pc = "commit", !.txn = after.txn]]
    /\ UNCHANGED <<dbvars, envvars, qtvars, smvars, sndvars, enqueued,
                   webhook, worker, admin, admins, ndeliveries, nfail, succeeded,
                   last, advances>>

\* handlers.py:202, 257, 330, 392, 419, 486, 533: db.commit() of a run; the
\* rows it held are free again
RunCommit(w) ==
    /\ runs[w].pc = "commit"
    /\ LET run == runs[w]
           txn == run.txn
       IN IF CommitAllowed(txn)
          THEN /\ ApplyTxn(txn, run.pmid)
               /\ advances' = advances \o Advance(txn, run.pmid)
               /\ runs' = [runs EXCEPT ![w] =
                     IF run.path = "approval"
                     THEN RunAt("send", run.pmid, "ack",
                            [EmptyTxn EXCEPT
                                !.contact_id = TxnContactId(txn),
                                !.conv_id = TxnConversationId(txn),
                                !.from = txn.state, !.state = txn.state],
                            run.overlap)
                     ELSE Finished(run, "returned", run.path)]
          ELSE /\ UNCHANGED <<dbvars, advances>>
               /\ runs' = [runs EXCEPT ![w] =
                     Finished(run, AfterCommitFailure(run.path), run.path)]
    /\ UNCHANGED <<envvars, qtvars, smvars, sndvars, sent, enqueued, webhook,
                   worker, admin, admins, ndeliveries, nfail, succeeded, last>>

\* The tables when the workers start: empty; or the contact has a
\* conversation on another channel of the tenant only (models.py:114-132:
\* a tenant can have several channels); or it has one on this channel.
WorkerSeeds == {"none", "other_channel", "CAPTURE_MIN", "QUOTE_SENT"}

WorkerSeedContacts(seed) ==
    IF seed = "none" THEN <<>> ELSE <<[phone |-> Phone]>>

WorkerSeedConversations(seed) ==
    IF seed = "none" THEN <<>>
    ELSE IF seed = "other_channel"
    THEN <<[contact_id |-> 1, channel_id |-> OtherChannel,
            state |-> "QUOTE_SENT"]>>
    ELSE <<[contact_id |-> 1, channel_id |-> Channel, state |-> seed]>>

\* The webhook has persisted every inbound message and enqueued its job;
\* a job can be delivered to both workers.
InitWorkers ==
    /\ gate_bound \in BOOLEAN
    /\ subscription_status \in {"active", "canceled"}
    /\ ~gate_bound => subscription_status = "active"
    /\ \E seed \in WorkerSeeds :
          /\ contacts = WorkerSeedContacts(seed)
          /\ conversations = WorkerSeedConversations(seed)
    /\ quotes = <<>> /\ approvals = <<>>
    /\ messages = [p \in JobIds |-> InboundRow(p)]
    /\ enqueued = [p \in JobIds |-> 1]
    /\ InitRest
    /\ InitSM
    /\ InitSend
    /\ InitQuoteOff

NextWorkers ==
    \E w \in Workers :
        \/ \E pmid \in JobIds : RunStart(w, pmid)
        \/ RunContact(w)
        \/ RunInsertContact(w)
        \/ RunConversation(w)
        \/ /\ runs[w].pc = "stamp"
           /\ \E ai \in AIResults :
                 \E cls \in (IF text[runs[w].pmid] = "unread" THEN Contents
                             ELSE {text[runs[w].pmid]}) :
                     RunStamp(w, ai, cls)
        \/ \E res \in SendResults : RunSend(w, res)
        \/ RunCommit(w)

SpecWorkers == InitWorkers /\ [][NextWorkers]_vars

(***************************************************************************)
(* Several approve / reject requests are handled at the same time, each in *)
(* a session of its own (get_db), READ COMMITTED.  A request changes its   *)
(* rows in the session only (autoflush is off, db/base.py:23) and writes   *)
(* them at db.commit(): an UPDATE of a row another session has just        *)
(* committed goes on and overwrites it.  routes.py takes no lock and the   *)
(* rows carry no version.  Each request is handled once.                   *)
(***************************************************************************)
\* a request that has answered
Answered(req, outcome) ==
    [pc |-> "done", action |-> req.action, approval_id |-> req.approval_id,
     outcome |-> outcome, overlap |-> req.overlap]

\* routes.py:233-268, 366-393: approve_quote and reject_quote up to the
\* rows they load; overlap is history: another request for the same
\* approval was in flight at the same time
RequestStart(a, action, approval_id) ==
    /\ admins[a].pc = "idle"
    /\ LET others == {b \in Admins \ {a} :
                         /\ admins[b].pc \in {"send", "commit"}
                         /\ admins[b].approval_id = approval_id}
           req == [action |-> action, approval_id |-> approval_id,
                   overlap |-> others # {}]
           loaded == [f \in (DOMAIN AdminLookup(action, approval_id))
                              \cup {"overlap"} |->
                         IF f = "overlap" THEN others # {}
                         ELSE AdminLookup(action, approval_id)[f]]
           mine == IF approval_id \notin Rows(approvals)
                   THEN Answered(req, "not_found")                   \* 404
                   ELSE IF approvals[approval_id].status # "pending"
                   THEN Answered(req, "already")
                   ELSE IF action = "approve" THEN loaded
                   ELSE IF transition(loaded.state, "admin_rejected")
                              = StateMachineError
                   THEN Answered(req, "error")       \* rollback, HTTP 500
                   ELSE [loaded EXCEPT !.new_state =
                            transition(loaded.state, "admin_rejected")]
       IN admins' = [b \in Admins |->
                       IF b = a THEN mine
                       ELSE IF b \in others
                       THEN [admins[b] EXCEPT !.overlap = TRUE]
                       ELSE admins[b]]
    /\ UNCHANGED <<dbvars, envvars, qtvars, smvars, sndvars, sent, enqueued,
                   webhook, worker, admin, runs, ndeliveries, nfail,
                   succeeded, last, advances>>

\* routes.py:270-348: the send of approve_quote, then the changes made in
\* the session
RequestSend(a, res) ==
    /\ admins[a].pc = "send"
    /\ res = "raise" \/ Len(sent) < MaxSends
    /\ sent' = IF res = "raise" THEN sent
               ELSE Append(sent,
                      [kind |-> "quote", src |-> admins[a].approval_id,
                       by |-> "approve",
                       id |-> IF res = "id" THEN ProviderId(Len(sent) + 1)
                              ELSE NULL,
                       after_ok |-> FALSE])
    /\ LET req == admins[a]
       IN admins' = [admins EXCEPT ![a] =
             IF res # "id" THEN Answered(req, "error")         \* HTTP 500
             ELSE IF transition(req.state, "admin_approved")
                        = StateMachineError
             THEN Answered(req, "error")             \* rollback, HTTP 500
             ELSE [req EXCEPT !.pc = "commit",
                      !.new_state = transition(req.state, "admin_approved"),
                      !.out_id = ProviderId(Len(sent) + 1)]]
    /\ UNCHANGED <<dbvars, envvars, qtvars, smvars, sndvars, enqueued,
                   webhook, worker, admin, runs, ndeliveries, nfail,
                   succeeded, last, advances>>

\* routes.py:351 and 420: db.commit() writes the rows the request changed
RequestCommit(a) ==
    /\ admins[a].pc = "commit"
    /\ LET req == admins[a]
       IN /\ approvals' = [approvals EXCEPT ![req.approval_id] =
                [@ EXCEPT !.status = IF req.action = "approve"
                                     THEN "approved" ELSE "rejected",
                          !.approved_by = "user"]]
          /\ conversations' = [conversations EXCEPT
                ![req.conv_id].state = req.new_state]
          /\ quotes' = [quotes EXCEPT ![req.quote_id].status =
                IF req.action = "approve" THEN "sent" ELSE "lost"]
          /\ messages' =
                IF req.action = "approve"
                THEN Append(messages,
                       [pmid |-> req.out_id, direction |-> "outbound",
                        conversation_id |-> req.conv_id, kind |-> "quote"])
                ELSE messages
          /\ admins' = [admins EXCEPT ![a] = Answered(req, "ok")]
    /\ UNCHANGED <<contacts, envvars, qtvars, smvars, sndvars, sent,
                   enqueued, webhook, worker, admin, runs, ndeliveries,
                   nfail, succeeded, last, advances>>

\* The tables when the requests arrive: one contact with one conversation
\* in some state and a draft quote with a pending approval.
InitAdmins ==
    /\ gate_bound = TRUE
    /\ subscription_status = "active"
    /\ \E seed \in {s \in Seeds : s.approval} :
          /\ contacts = SeedContacts(seed)
          /\ conversations = SeedConversations(seed)
          /\ quotes = SeedQuotes(seed)
          /\ approvals = SeedApprovals(seed)
    /\ messages = <<>>
    /\ enqueued = [p \in PMIDs |-> 0]
    /\ InitRest
    /\ InitSM
    /\ InitSend
    /\ InitQuoteOff

NextAdmins ==
    \E a \in Admins :
        \/ \E action \in {"approve", "reject"}, approval_id \in ApprovalIds :
              RequestStart(a, action, approval_id)
        \/ \E res \in SendResults : RequestSend(a, res)
        \/ RequestCommit(a)

SpecAdmins == InitAdmins /\ [][NextAdmins]_vars

(***************************************************************************)
(* domain/parsing.py: parse_data_capture_message on what its regular       *)
(* expressions find in a message, and on the answer of the language model  *)
(* when use_ai is set.                                                     *)
(***************************************************************************)
\* Python's None where a string is expected
None == "None"

\* What the patterns of parsing.py:47-131 find in a message text:
\*   cep         the match of the CEP pattern (line 52)
\*   bairro      the rest of the line after the first bairro keyword (59-68)
\*   payment     the first payment method one of whose keywords occurs (77)
\*   delivery    the first delivery day one of whose keywords occurs (89)
\*   entrega     the rest of the line after ENTREGA / DELIVERY (96-103)
\*   matches     the matches of the item pattern: name and quantity (110)
Match(name, quantity) == [name |-> name, quantity |-> quantity]

Texts ==
    [cep : {None, "01310-100"},
     bairro : {None, "", "CENTRO"},
     payment : {None, "PIX"},
     delivery : {None, "Amanha"},
     entrega : {None, "", "SEXTA"},
     matches : {<<>>, <<Match("Cimento", 10)>>, <<Match("Cimento", 0)>>,
                <<Match("", 10), Match("Areia", 2)>>}]

\* parsing.py:49-68
extract_cep_or_bairro(message_text) ==
    IF message_text.cep # None THEN message_text.cep
    ELSE IF message_text.bairro # None /\ message_text.bairro # "" THEN message_text.bairro
    ELSE None

\* parsing.py:83-103
extract_delivery_day(message_text) ==
    IF message_text.delivery # None THEN message_text.delivery
    ELSE IF message_text.entrega # None THEN message_text.entrega
    ELSE None

\* parsing.py:105-131: matches with an empty name or a quantity that is not
\* positive are skipped
extract_items(message_text) ==
    SelectSeq(message_text.matches, LAMBDA m : m.name # "" /\ m.quantity > 0)

\* the keys of the data record
DataKeys == {"cep_or_bairro", "payment_method", "delivery_day", "items"}

\* The answer of the language model (parsing.py:134-196): the call raises,
\* the content is not JSON, it is JSON but no object, or it is an object
\* with some of the keys; the value of "items" is a list, of the other keys
\* a string, or null in an object with every key.
Dict(keys, value, items) ==
    [k \in keys |-> IF k = "items" THEN items ELSE value]

Dicts ==
    {Dict(keys, "x", items) :
        keys \in SUBSET DataKeys, items \in {<<>>, <<Match("Cimento", 10)>>}}
    \cup {Dict(DataKeys, None, <<Match("Cimento", 10)>>)}

LLMAnswers ==
    {[kind |-> "exception"], [kind |-> "not_json"], [kind |-> "not_dict"]}
    \cup {[kind |-> "dict", ai_data |-> d] : d \in Dicts}

\* use_ai is False: the language model is not called
NotCalled == [kind |-> "not_called"]

\* (None, False): parsed is whether the first component is a dict
NoData == [parsed |-> FALSE, data |-> <<>>, requires_approval |-> FALSE]

\* parsing.py:15-207 parse_data_capture_message, on what the patterns found
parse_data_capture(message_text, use_ai, answer) ==
    LET found == [cep_or_bairro |-> extract_cep_or_bairro(message_text),
                  payment_method |-> message_text.payment,
                  delivery_day |-> extract_delivery_day(message_text),
                  items |-> extract_items(message_text)]
    IN IF use_ai /\ answer.kind = "dict"
       THEN [parsed |-> TRUE, data |-> answer.ai_data,
             requires_approval |-> TRUE]
       ELSE IF \/ found.cep_or_bairro \in {None, ""}
               \/ found.payment_method \in {None, ""}
               \/ found.delivery_day \in {None, ""}
               \/ found.items = <<>>
       THEN NoData
       ELSE [parsed |-> TRUE, data |-> found, requires_approval |-> FALSE]

\* a caller of the parser, as handlers.py:223-227
CallParse(message_text, use_ai, answer) ==
    /\ q_pc = "ready"
    /\ q_pc' = "called"
    /\ q_call' = [fn |-> "parse_data_capture_message", message_text |-> message_text,
                  use_ai |-> use_ai, answer |-> answer]
    /\ q_ret' = parse_data_capture(message_text, use_ai, answer)
    /\ UNCHANGED <<q_db, Elsewhere>>

InitParser ==
    /\ InitEngines
    /\ q_db = EmptyConfig

NextParser ==
    \E message_text \in Texts, use_ai \in BOOLEAN :
        \E answer \in (IF use_ai THEN LLMAnswers ELSE {NotCalled}) :
            CallParse(message_text, use_ai, answer)

SpecParser == InitParser /\ [][NextParser]_vars

(***************************************************************************)
(* At-least-once delivery with retry of the job of process_inbound_event   *)
(* (handlers.py:38-549) for the first message of a contact that has no     *)
(* conversation on the channel: the queue runs the job again after a run   *)
(* that raised, the gateway does not refuse every send, and the database   *)
(* does not refuse every commit.                                           *)
(***************************************************************************)
RetrySeeds == {"none", "other_channel"}

InitRetry ==
    /\ gate_bound \in BOOLEAN
    /\ subscription_status \in {"active", "trialing"}
    /\ \E seed \in RetrySeeds :
          /\ contacts = WorkerSeedContacts(seed)
          /\ conversations = WorkerSeedConversations(seed)
    /\ quotes = <<>> /\ approvals = <<>>
    /\ messages = [p \in PMIDs |-> InboundRow(p)]
    /\ enqueued = [p \in PMIDs |-> 1]
    /\ InitRest
    /\ InitSM
    /\ InitSend
    /\ InitQuoteOff

\* a run of the job of a message
RunJob(pmid) ==
    \E ai \in AIResults :
        \E cls \in (IF text[pmid] = "unread" THEN Contents
                    ELSE {text[pmid]}) :
            ProcStart(pmid, ai, cls)

NextRetry ==
    \/ \E pmid \in JobIds : RunJob(pmid)
    \/ \E res \in SendResults : ProcSend(res)
    \/ \E dbok \in BOOLEAN : ProcCommit(dbok)

\* the queue runs the job of a persisted message (again), a run goes on to
\* its end, and a send that is tried again and again is accepted at some
\* time
RetryFairness ==
    /\ \A pmid \in PMIDs : WF_vars(RunJob(pmid))
    /\ WF_vars(\E res \in SendResults : ProcSend(res))
    /\ WF_vars(\E dbok \in BOOLEAN : ProcCommit(dbok))
    /\ SF_vars(ProcSend("id"))

SpecRetry == InitRetry /\ [][NextRetry]_vars /\ RetryFairness

(***************************************************************************)
(* The properties.                                                         *)
(***************************************************************************)

\* The twelve rows of the transition table as the specification lists them.
TableRows ==
    {<<"INBOUND", "first_message_received", "CAPTURE_MIN">>,
     <<"CAPTURE_MIN", "minimal_data_received", "QUOTE_READY">>,
     <<"QUOTE_READY", "approval_required", "HUMAN_APPROVAL">>,
     <<"QUOTE_READY", "quote_approved", "QUOTE_SENT">>,
     <<"QUOTE_READY", "quote_auto_ok", "QUOTE_SENT">>,
     <<"QUOTE_SENT", "user_replied", "WAITING_REPLY">>,
     <<"QUOTE_SENT", "window_expired", "LOST">>,
     <<"WAITING_REPLY", "schedule_confirmed", "WON">>,
     <<"WAITING_REPLY", "user_declined", "LOST">>,
     <<"WAITING_REPLY", "window_expired", "LOST">>,
     <<"HUMAN_APPROVAL", "admin_approved", "QUOTE_SENT">>,
     <<"HUMAN_APPROVAL", "admin_rejected", "LOST">>}

InTable(state, event) == \E row \in TableRows : row[1] = state /\ row[2] = event

\* C2: a call of transition with a (state, event) pair that is not a row of
\* the table ends with the invalid-transition error, and the caller's state
\* is the same after the call as before it.
C2_InvalidTransitionRejected ==
    [][(sm_pc = "called" /\ ~InTable(sm_state, sm_event))
          => (sm_result = StateMachineError /\ sm_state' = sm_state)]_vars

\* C2 witness: the call the processor makes for a quote that needs approval,
\* (CAPTURE_MIN, approval_required), has ended with the error.
C2_Witness ==
    /\ sm_pc = "called"
    /\ sm_state = "CAPTURE_MIN" /\ sm_event = "approval_required"
    /\ sm_result = StateMachineError

\* C3: for each of the twelve rows transition returns the row's next state,
\* and can_transition is true for those twelve of the 8 x 11 pairs and for
\* no other.
C3_TableExact ==
    /\ Cardinality(TableRows) = 12
    /\ Cardinality(ConversationState \X Event) = 88
    /\ Cardinality({pair \in ConversationState \X Event :
                       can_transition(pair[1], pair[2])}) = 12
    /\ can_transition(sm_state, sm_event) <=> InTable(sm_state, sm_event)
    /\ sm_pc = "called" =>
          \A row \in TableRows :
             (row[1] = sm_state /\ row[2] = sm_event) => sm_result = row[3]

\* C3 witness: a conversation in QUOTE_SENT was given window_expired and the
\* call returned LOST.
C3_Witness ==
    /\ sm_pc = "called"
    /\ sm_state = "QUOTE_SENT" /\ sm_event = "window_expired"
    /\ sm_result = "LOST"

\* C8: whatever number of deliveries carry one provider_message_id, one
\* after the other or at the same time, the messages table holds at most
\* one row with that id and at most one job was enqueued for it.
C8_WebhookIdempotent ==
    \A pmid \in WebhookIds :
        /\ Cardinality({i \in Rows(messages) : messages[i].pmid = pmid}) <= 1
        /\ enqueued[pmid] <= 1

\* C8 witness: two requests passed the lookup for the same id at the same
\* time; one has committed its row and enqueued the job, the other is about
\* to insert.
C8_Witness ==
    \E r1, r2 \in Requests, pmid \in WebhookIds :
        /\ r1 # r2
        /\ webhook[r1].pc = "persist" /\ webhook[r1].pmid = pmid
        /\ webhook[r2].pc = "idle"
        /\ enqueued[pmid] = 1
        /\ MessageByProviderId(pmid) # NULL

\* The inbound message with this id has a row that carries a conversation.
Stamped(pmid) ==
    /\ MessageByProviderId(pmid) # NULL
    /\ messages[MessageByProviderId(pmid)].conversation_id # NULL

\* The processor's sends the gateway accepted for an inbound message.
SendsFor(pmid, kinds) ==
    {i \in 1..Len(sent) : /\ sent[i].by = "processor"
                          /\ sent[i].src = pmid
                          /\ sent[i].kind \in kinds}

AdvancesFor(pmid) == {i \in 1..Len(advances) : advances[i].pmid = pmid}

AllKinds == {"prompt", "clarify", "notfound", "error", "ack", "quote"}

C4_PromptFailureRollsBack ==
    [][\A pmid \in JobIds :
          (/\ worker.pc = "send" /\ worker.path = "prompt"
           /\ worker.pmid = pmid
           /\ worker' # worker /\ sent' = sent)
             => (/\ UNCHANGED dbvars
                 /\ worker' = IdleWorker
                 /\ last' = [pmid |-> pmid, outcome |-> "raised",
                             path |-> "prompt", ai |-> "unused"]
                 /\ ~Stamped(pmid)')]_vars

\* C4 witness: the last run ended with the error of the prompt's send, and
\* the database has no conversation and an unstamped message.
C4_Witness ==
    /\ last.outcome = "raised" /\ last.path = "prompt"
    /\ nfail = 0 /\ sent = <<>>
    /\ conversations = <<>>
    /\ ~Stamped(last.pmid)

\* C5: a quote that needed approval when it was created has status SENT
\* only with an Approval that the approve action resolved APPROVED, and the
\* processor never sends the quote message of such a quote nor marks it SENT.
C5_ApprovalGate ==
    /\ \A q \in Rows(quotes) :
          (quotes[q].gated /\ quotes[q].status = "sent") =>
             \E a \in Rows(approvals) :
                /\ approvals[a].quote_id = q
                /\ approvals[a].status = "approved"
                /\ approvals[a].approved_by = "user"
                /\ \E i \in 1..Len(sent) :
                      /\ sent[i].by = "approve" /\ sent[i].src = a
                      /\ sent[i].id # NULL
    /\ (worker.pc # "idle" /\ worker.txn.gated) =>
          /\ worker.path # "quote"
          /\ worker.txn.quote # "sent"

\* C5 witness: a quote that needed approval is SENT, its approval APPROVED.
C5_Witness ==
    \E q \in Rows(quotes), a \in Rows(approvals) :
        /\ quotes[q].gated /\ quotes[q].status = "sent"
        /\ approvals[a].quote_id = q /\ approvals[a].status = "approved"

FirstMessageDone(pmid, provider_id) ==
    /\ Len(conversations) = 1
    /\ conversations[1].state = "CAPTURE_MIN"
    /\ Stamped(pmid)
    /\ messages[MessageByProviderId(pmid)].conversation_id = 1
    /\ Cardinality({i \in 1..Len(sent) : sent[i].id = provider_id}) = 1
    /\ \A i \in 1..Len(sent) :
          sent[i].id = provider_id =>
             /\ sent[i].kind = "prompt" /\ sent[i].src = pmid
    /\ Cardinality({m \in Rows(messages) :
                       /\ messages[m].pmid = provider_id
                       /\ messages[m].direction = "outbound"
                       /\ messages[m].conversation_id = 1}) = 1

\* A run for an unprocessed message of a contact with no conversation has
\* had its prompt accepted with an id, and ends with this step.
FirstMessageRunEnds(pmid, provider_id) ==
    /\ worker.pc = "commit" /\ worker.path = "prompt"
    /\ worker.pmid = pmid
    /\ worker.txn.conv_new
    /\ worker.sent_id = provider_id
    /\ worker'.pc = "idle"

ProviderIds == {ProviderId(n) : n \in 1..MaxSends}

C10_ProcessedIsNoOp ==
    [][\A pmid \in JobIds :
          (Stamped(pmid) /\ \E ai \in AIResults, cls \in Contents :
                               ProcStart(pmid, ai, cls))
             => (/\ worker' = IdleWorker
                 /\ UNCHANGED <<dbvars, sent, advances>>
                 /\ last' = [pmid |-> pmid, outcome |-> "already_processed",
                             path |-> "", ai |-> "unused"])]_vars

\* C10 witness: a message was processed (one prompt sent, the message
\* stamped) and a later run for it ended at the check.
C10_Witness ==
    /\ last.outcome = "already_processed"
    /\ Stamped(last.pmid)
    /\ Len(sent) = 1

\* What C11 promises once a run took the approval-required path.
ApprovalPathDone(pmid) ==
    /\ last.outcome = "returned"
    /\ Stamped(pmid)
    /\ LET conv == messages[MessageByProviderId(pmid)].conversation_id
       IN /\ conversations[conv].state = "HUMAN_APPROVAL"
          /\ \E q \in Rows(quotes), a \in Rows(approvals) :
                /\ quotes[q].conversation_id = conv
                /\ approvals[a].quote_id = q
                /\ approvals[a].status = "pending"
    /\ SendsFor(pmid, {"ack"}) # {}

\* C11: a run for a conversation in CAPTURE_MIN whose data parses, resolves
\* at least one item and gives a quote that needs approval ends with the
\* quote and a pending approval committed, the conversation committed in
\* HUMAN_APPROVAL and the acknowledgement sent.
C11_ApprovalPath ==
    [][\A pmid \in PMIDs :
          (/\ last' # last
           /\ last'.pmid = pmid
           /\ last'.path \in {"approval", "ack"})
             => ApprovalPathDone(pmid)']_vars

\* What C12 promises after the auto-quote path.
AutoQuoteDone(pmid, provider_id) ==
    /\ Stamped(pmid)
    /\ LET conv == messages[MessageByProviderId(pmid)].conversation_id
       IN /\ conversations[conv].state = "QUOTE_SENT"
          /\ \E q \in Rows(quotes) :
                /\ quotes[q].conversation_id = conv
                /\ quotes[q].status = "sent"
                /\ ~quotes[q].gated
          /\ Cardinality({m \in Rows(messages) :
                             /\ messages[m].pmid = provider_id
                             /\ messages[m].direction = "outbound"
                             /\ messages[m].kind = "quote"
                             /\ messages[m].conversation_id = conv}) = 1
    /\ Cardinality({i \in 1..Len(sent) : sent[i].id = provider_id}) = 1
    /\ \A i \in 1..Len(sent) :
          sent[i].id = provider_id =>
             /\ sent[i].kind = "quote" /\ sent[i].src = pmid
    /\ advances # <<>>
    /\ advances[Len(advances)] =
          [pmid |-> pmid, from |-> "CAPTURE_MIN", to |-> "QUOTE_SENT",
           out_id |-> provider_id]

\* A run on the auto-quote path had its quote message accepted with an id
\* while the conversation was in QUOTE_READY in its session, and ends with
\* this step.
AutoQuoteRunEnds(pmid, provider_id) ==
    /\ worker.pc = "commit" /\ worker.path = "quote"
    /\ worker.pmid = pmid
    /\ worker.txn.from = "CAPTURE_MIN"
    /\ worker.sent_id = provider_id
    /\ worker'.pc = "idle"

C13_IncompleteCapture ==
    [][\A pmid \in JobIds :
          /\ (/\ worker.pc = "idle" /\ worker'.pc # "idle"
              /\ worker'.pmid = pmid
              /\ worker'.txn.from = "CAPTURE_MIN"
              /\ worker'.ai = "off" /\ text'[pmid] = "incomplete")
                => (/\ worker'.pc = "send" /\ worker'.path = "clarify"
                    /\ worker'.txn.state = "CAPTURE_MIN"
                    /\ worker'.txn.quote = ""
                    /\ worker'.txn.napprovals = 0)
          /\ (/\ worker.pc # "idle" /\ worker.path = "clarify"
              /\ worker.pmid = pmid /\ worker' # worker)
                => (/\ quotes' = quotes /\ approvals' = approvals
                    /\ Len(conversations') = Len(conversations)
                    /\ \A c \in Rows(conversations) :
                          conversations'[c].state = conversations[c].state
                    /\ \A c \in Rows(conversations) :
                          conversations[c].state = "CAPTURE_MIN")]_vars

\* C13 witness: a run on an incomplete message has sent the clarification
\* and returned; the conversation is in CAPTURE_MIN with no quote.
C13_Witness ==
    /\ last.outcome = "returned" /\ last.path = "clarify" /\ last.ai = "off"
    /\ text[last.pmid] = "incomplete"
    /\ SendsFor(last.pmid, {"clarify"}) # {}
    /\ Len(conversations) = 1 /\ conversations[1].state = "CAPTURE_MIN"
    /\ quotes = <<>> /\ approvals = <<>>
    /\ Stamped(last.pmid)

\* The run used data that the AI path of the parser returned.
ByAI(ai) == ai \in AIResults \ {"off"}

\* C14: a run whose data came from the AI path of the parser is never on the
\* auto-send branch: it is never at the send of a quote message, never holds
\* QUOTE_READY or QUOTE_SENT or a Quote marked SENT in its session, and never
\* ends on that branch.
C14_AIForcesApproval ==
    /\ (worker.pc # "idle" /\ ByAI(worker.ai)) =>
          /\ worker.path # "quote"
          /\ worker.txn.state \notin {"QUOTE_READY", "QUOTE_SENT"}
          /\ worker.txn.quote # "sent"
    /\ ByAI(last.ai) => last.path # "quote"

\* C14 witness: the AI returned data that needs no approval for any other
\* reason (every item known, no threshold crossed), and the run took the
\* approval branch and ended there.
C14_Witness ==
    /\ last.ai = "auto" /\ last.path = "approval"
    /\ sent = <<>>

Terminal == {"WON", "LOST"}

\* C15: no event is valid from WON or from LOST, and no step changes the
\* state of a conversation that is committed in WON or LOST.
C15_TerminalStates ==
    [][/\ \A state \in Terminal, event \in Event :
             /\ ~can_transition(state, event)
             /\ transition(state, event) = StateMachineError
       /\ \A c \in Rows(conversations) :
             conversations[c].state \in Terminal =>
                /\ c \in Rows(conversations')
                /\ conversations'[c].state = conversations[c].state]_vars

\* C15 witness: on a conversation in LOST with a pending approval, an approve
\* action has sent its message and failed at the transition, and a processor
\* run for a new message has returned: the conversation is still in LOST.
C15_Witness ==
    /\ Len(conversations) = 1 /\ conversations[1].state = "LOST"
    /\ Len(approvals) = 1 /\ approvals[1].status = "pending"
    /\ nfail = 0
    /\ \E i \in 1..Len(sent) : sent[i].by = "approve" /\ sent[i].id # NULL
    /\ admin.pc = "idle"
    /\ last.outcome = "returned" /\ last.path = "other"
    /\ Stamped(last.pmid)

\* What C16 promises after an approve action.
ApproveDone(approval_id, provider_id) ==
    /\ approvals[approval_id].status = "approved"
    /\ approvals[approval_id].approved_by = "user"
    /\ LET q == approvals[approval_id].quote_id
       IN /\ quotes[q].status = "sent"
          /\ conversations[quotes[q].conversation_id].state = "QUOTE_SENT"
          /\ \E m \in Rows(messages) :
                /\ messages[m].pmid = provider_id
                /\ messages[m].direction = "outbound"
                /\ messages[m].conversation_id = quotes[q].conversation_id
    /\ Cardinality({i \in 1..Len(sent) : sent[i].id = provider_id}) = 1
    /\ \A i \in 1..Len(sent) :
          sent[i].id = provider_id =>
             /\ sent[i].by = "approve" /\ sent[i].kind = "quote"
             /\ sent[i].src = approval_id

\* An approve action for a pending approval whose conversation it read in
\* HUMAN_APPROVAL has had its quote message accepted with an id, and ends
\* with this step.
ApproveEnds(approval_id, provider_id) ==
    /\ admin.pc = "commit" /\ admin.action = "approve"
    /\ admin.approval_id = approval_id
    /\ admin.state = "HUMAN_APPROVAL"
    /\ admin.out_id = provider_id
    /\ admin'.pc = "idle"

RejectDone(approval_id) ==
    /\ approvals[approval_id].status = "rejected"
    /\ approvals[approval_id].approved_by = "user"
    /\ LET q == approvals[approval_id].quote_id
       IN /\ quotes[q].status = "lost"
          /\ conversations[quotes[q].conversation_id].state = "LOST"

\* A reject action for a pending approval whose conversation it read in
\* HUMAN_APPROVAL ends with this step.
RejectEnds(approval_id) ==
    /\ admin.pc = "commit" /\ admin.action = "reject"
    /\ admin.approval_id = approval_id
    /\ admin.state = "HUMAN_APPROVAL"
    /\ admin'.pc = "idle"

\* C17: a reject action for a pending approval whose conversation is in
\* HUMAN_APPROVAL sends nothing and commits REJECTED with the user, LOST and
\* LOST together: all three, or, when the database refuses the commit, no
\* change at all.
C17_Reject ==
    [][\A approval_id \in Rows(approvals) :
          RejectEnds(approval_id)
             => /\ sent' = sent
                /\ \/ RejectDone(approval_id)'
                   \/ (dbvars' = dbvars /\ nfail' = nfail + 1)]_vars

\* C17 witness: an approval is REJECTED by the user, its conversation and
\* its quote LOST, and no message was sent.
C17_Witness ==
    /\ approvals # <<>>
    /\ RejectDone(1)
    /\ sent = <<>>

\* C18: an approve or reject action on an approval that is not PENDING
\* answers "already <status>", sends nothing and changes no table.
C18_ResolvedIsNoOp ==
    [][\A approval_id \in Rows(approvals) :
          (/\ approvals[approval_id].status # "pending"
           /\ \/ ApproveStart(approval_id)
              \/ RejectStart(approval_id))
             => (/\ admin' = AlreadyResolved(approvals[approval_id].status)
                 /\ UNCHANGED <<dbvars, sent>>)]_vars

\* C18 witness: an action on an approved approval got the answer.
C18_Witness ==
    /\ admin = AlreadyResolved("approved")
    /\ approvals # <<>> /\ approvals[1].status = "approved"
    /\ Len(sent) = 1

\* The failures the specification calls transient.
Transient == {"timeout", "network"} \cup Status5xx

\* C19: send_text_message makes at most max_retries + 1 = 4 attempts; it
\* attempts again after every network error, timeout or 5xx answer while
\* attempts are left, returns what the first attempt with a 2xx answer gave,
\* and raises after a transient failure only when that was the fourth attempt.
C19_TransientRetried ==
    /\ Len(snd_answers) <= max_retries + 1
    /\ max_retries + 1 = 4
    /\ \A i \in 1..Len(snd_answers) :
          (snd_answers[i] \in Transient /\ i < max_retries + 1) =>
             \/ i < Len(snd_answers)
             \/ snd_pc = "calling"
    /\ snd_pc = "returned" =>
          /\ snd_answers[Len(snd_answers)] \in {"2xx_id", "2xx_no_id"}
          /\ \A i \in 1..(Len(snd_answers) - 1) : snd_answers[i] \in Transient
          /\ snd_result = SendOutcome(snd_answers[Len(snd_answers)])
    /\ (snd_pc = "raised" /\ snd_answers[Len(snd_answers)] \in Transient) =>
          /\ Len(snd_answers) = max_retries + 1
          /\ snd_result = SendOutcome(snd_answers[Len(snd_answers)])

\* C20: an attempt that the gateway answers with a 4xx status is the last
\* attempt of the call, and the call raises; answered so at the first
\* attempt, the call has made exactly one attempt.
C20_ClientErrorNotRetried ==
    \A i \in 1..Len(snd_answers) :
        snd_answers[i] \in Status4xx =>
           /\ i = Len(snd_answers)
           /\ snd_pc = "raised"
           /\ snd_result = "HTTPStatusError"

\* C20 witness: the gateway answered the first attempt with 429 and the call
\* raised after that one attempt.
C20_Witness ==
    /\ snd_answers = <<"429">>
    /\ snd_pc = "raised"
    /\ snd_attempt = 0

(***************************************************************************)
(* The engines seen from the processor.                                    *)
(***************************************************************************)
\* handlers.py:108-153, 217: the session of a run whose conversation is in
\* CAPTURE_MIN
CaptureTxn ==
    [EmptyTxn EXCEPT !.contact_id = 1, !.conv_id = 1, !.stamp = TRUE,
                     !.from = "CAPTURE_MIN", !.state = "CAPTURE_MIN"]

\* handlers.py:337-355, 500-502: what generate_quote's result is to the
\* branches of the handler
ContentOf(ret) ==
    IF ret.raised # "" THEN "unpriced"
    ELSE IF ret.needs_approval THEN "threshold"
    ELSE "auto"

AllPriced(items) ==
    \A i \in DOMAIN items : q_db.tenant_items[items[i].item_id] # Unset

\* C21: a tenant with no PricingRule: a complete data-capture message with
\* resolvable items ends as a Quote with a pending Approval and the
\* conversation on its way to HUMAN_APPROVAL, not as a failed quote
\* generation.
C21_MissingRuleForcesApproval ==
    (/\ q_call.fn = "generate_quote"
     /\ q_db.pricing_rules = <<>>
     /\ q_call.items # <<>>
     /\ AllPriced(q_call.items))
    => /\ q_ret.raised = ""
       /\ q_ret.needs_approval
       /\ \E i \in DOMAIN q_ret.approvals : q_ret.approvals[i].status = "pending"
       /\ LET next == CaptureMin(1, CaptureTxn, ContentOf(q_ret), "off")
          IN /\ next.path = "approval"
             /\ next.pc = "commit"
             /\ next.txn.state = "HUMAN_APPROVAL"

\* C22: when calculate_freight finds no rule for the location, generate_quote
\* raises nothing: it creates the Quote with freight 0 and the pricing total
\* as its total, returns needs_approval = true and adds one pending Approval
\* whose reason is the freight failure.
C22_FreightFailureForcesApproval ==
    (/\ q_call.fn = "generate_quote"
     /\ q_call.freight.raised = "FreightError")
    => /\ q_ret.raised = ""
       /\ q_ret.quote.status = "draft"
       /\ q_ret.quote.freight = 0
       /\ q_ret.quote.total = q_call.pricing.total
       /\ q_ret.needs_approval
       /\ q_ret.approvals =
             <<[status |-> "pending",
                reason |-> <<"Freight calculation failed">>]>>

\* Witness: the freight failed for a quote of 450.00 that no threshold of
\* the tenant's rule would have sent to approval.
C22_Witness ==
    /\ q_call.fn = "generate_quote"
    /\ q_call.freight.raised = "FreightError"
    /\ q_db.pricing_rules = <<PricingRuleRow(0, 30, Unset, Unset)>>
    /\ q_ret.raised = ""
    /\ q_ret.quote.total = Dec(450)
    /\ q_ret.needs_approval

\* C23: with a PricingRule, check_approval_required answers true exactly
\* when a name is unknown, or a total threshold is set (to any value, zero
\* too) and the total is above it, or a margin threshold is set and the
\* margin is below it; otherwise it answers false with an empty reason.
C23_ApprovalPolicy ==
    (/\ q_call.fn = "check_approval_required"
     /\ q_db.pricing_rules # <<>>)
    => LET rule == q_db.pricing_rules[1]
           due == \/ q_call.unknown # <<>>
                  \/ /\ rule.approval_threshold_total # Unset
                     /\ q_call.total > rule.approval_threshold_total
                  \/ /\ rule.approval_threshold_margin # Unset
                     /\ q_call.margin_pct < rule.approval_threshold_margin
       IN /\ q_ret.needs_approval = due
          /\ ~due => q_ret.reason = <<>>

\* the discounts of a set whose min_quantity the quantity reaches, and those
\* of them with the largest min_quantity
Reached(rows, quantity) == {d \in rows : d.min_quantity =< quantity}

Largest(rows) ==
    {d \in rows : \A o \in rows : d.min_quantity >= o.min_quantity}

Discounted(base_price, discount_pct) ==
    base_price - (base_price * discount_pct) \div 100

\* C24: calculate_item_price gives the base price for a quantity below the
\* min_quantity of every applicable discount; otherwise it applies exactly
\* one discount, the one with the largest min_quantity that the quantity
\* reaches (the item's own discounts first, the global ones when none of the
\* item's is reached): unit_price = base x (1 - discount_pct), and
\* total = unit_price x quantity.
C24_VolumeDiscount ==
    (/\ q_call.fn = "calculate_item_price"
     /\ q_ret.raised = "")
    => LET base_price == q_db.tenant_items[q_call.item_id]
           own == Reached({d \in q_db.volume_discounts :
                              d.item_id = q_call.item_id}, q_call.quantity)
           global == Reached({d \in q_db.volume_discounts :
                                 d.item_id = NULL}, q_call.quantity)
           applicable == IF own # {} THEN own ELSE global
       IN /\ applicable = {} => q_ret.unit_price = base_price
          /\ applicable # {} =>
                \E d \in Largest(applicable) :
                    q_ret.unit_price = Discounted(base_price, d.discount_pct)
          /\ q_ret.total_price = q_ret.unit_price * q_call.quantity

\* the sum of the line totals of a priced list, line by line from its end
RECURSIVE LineTotals(_, _)
LineTotals(lines, n) ==
    IF n = 0 THEN 0 ELSE LineTotals(lines, n - 1) + lines[n].total_price

\* the spellings of PIX among the payment methods
SpelledPix == {"PIX", "pix", "Pix"}

\* C25: calculate_quote_totals: the subtotal is the sum of the line totals;
\* discount_pct is the tenant's pix_discount_pct if the payment method is
\* PIX in any case of letters, and 0 if it is not; discount_amount =
\* subtotal x discount_pct and total = subtotal - discount_amount.
C25_PixDiscount ==
    (/\ q_call.fn = "calculate_quote_totals"
     /\ q_ret.raised = "")
    => /\ q_ret.subtotal = LineTotals(q_ret.items, Len(q_call.items))
       /\ \A i \in DOMAIN q_call.items :
             q_ret.items[i].total_price =
                q_ret.items[i].unit_price * q_call.items[i].quantity
       /\ q_ret.discount_pct =
             IF q_call.payment_method \in SpelledPix
             THEN q_db.pricing_rules[1].pix_discount_pct ELSE 0
       /\ q_ret.discount_amount * 100 = q_ret.subtotal * q_ret.discount_pct
       /\ q_ret.total = q_ret.subtotal - q_ret.discount_amount

\* Witness: 5%, 10 x 45.00, "pix": 450.00, 22.50, 427.50.
C25_Witness ==
    /\ q_call.fn = "calculate_quote_totals"
    /\ q_call.payment_method = "pix"
    /\ q_call.items = <<Line(1, 10)>>
    /\ q_db.pricing_rules # <<>>
    /\ q_ret.raised = ""
    /\ q_ret.subtotal = Dec(450)
    /\ q_ret.discount_pct = 5
    /\ q_ret.discount_amount = 225000
    /\ q_ret.total = 4275000

\* the rules whose neighborhood is the input, and those whose postal-code
\* range holds the digits of the input
NamedFor(location) == {r \in q_db.freight_rules : r.bairro = location}

HasDigit(location) == \E i \in DOMAIN location : location[i] \in
    {"0", "1", "2", "3", "4", "5", "6", "7", "8", "9"}

RangedFor(location) ==
    {r \in q_db.freight_rules :
        /\ HasDigit(location)
        /\ r.cep_range_start \notin {NoString, <<>>}
        /\ r.cep_range_end \notin {NoString, <<>>}
        /\ cep_in_range(location, r.cep_range_start, r.cep_range_end)}

\* C26: calculate_freight uses a rule whose neighborhood name is the input
\* whenever there is one, also when a postal-code range holds the input; it
\* uses a rule of a matching range only when no neighborhood matches; it
\* raises FreightError exactly when neither matches.
C26_NeighborhoodFirst ==
    q_call.fn = "calculate_freight"
    => LET named == NamedFor(q_call.cep_or_bairro)
           ranged == RangedFor(q_call.cep_or_bairro)
       IN /\ named # {} => q_ret.raised = "" /\ q_ret.rule \in named
          /\ (named = {} /\ ranged # {}) =>
                q_ret.raised = "" /\ q_ret.rule \in ranged
          /\ (named = {} /\ ranged = {}) <=> q_ret.raised = "FreightError"

\* Witness: the input "c1" is the name of a neighborhood and its digits lie
\* in the range of another rule; the neighborhood's rule was used.
C26_Witness ==
    /\ q_call.fn = "calculate_freight"
    /\ NamedFor(q_call.cep_or_bairro) # {}
    /\ RangedFor(q_call.cep_or_bairro) \ NamedFor(q_call.cep_or_bairro) # {}
    /\ q_ret.raised = ""
    /\ q_ret.rule \in NamedFor(q_call.cep_or_bairro)
    /\ q_ret.rule \notin RangedFor(q_call.cep_or_bairro)

\* the states one row of the specification's table leads to, and the states
\* one or more consecutive rows lead to
TableStep(from) == {row[3] : row \in {r \in TableRows : r[1] = from}}

RECURSIVE TableReach(_, _)
TableReach(states, n) ==
    IF n = 0 THEN states
    ELSE TableReach(states \cup UNION {TableStep(s) : s \in states}, n - 1)

ByTable(from, to) ==
    to \in TableReach(TableStep(from), Cardinality(ConversationState))

\* a processor run, or an approve request, ends at a (state, event) pair
\* that is not in the table
InvalidPairEnds ==
    \/ /\ worker.pc = "idle" /\ worker'.pc = "idle" /\ admin' = admin
       /\ last'.outcome = "raised"
       /\ last'.path \in {"prompt", "approval", "quote"}
    \/ /\ admin.pc = "send" /\ admin'.pc = "idle" /\ worker' = worker
       /\ sent' # sent
       /\ ~InTable(admin.state, "admin_approved")

\* C27: every committed change of a conversation's state is one or more
\* consecutive transitions of the table away from the state committed
\* before (INBOUND for a conversation that is created), and a run that ends
\* at a pair outside the table commits no change of state.
C27_OnlyTableTransitions ==
    [][/\ \A c \in Rows(conversations') :
             LET before == IF c \in Rows(conversations)
                           THEN conversations[c].state ELSE "INBOUND"
             IN \/ conversations'[c].state = before
                \/ ByTable(before, conversations'[c].state)
       /\ InvalidPairEnds => conversations' = conversations]_vars

\* Witness: a run has committed CAPTURE_MIN -> QUOTE_SENT, two transitions
\* of the table (minimal_data_received, quote_auto_ok).
C27_Witness ==
    /\ \E i \in 1..Len(advances) :
          /\ advances[i].from = "CAPTURE_MIN"
          /\ advances[i].to = "QUOTE_SENT"
    /\ \E c \in Rows(conversations) : conversations[c].state = "QUOTE_SENT"

Overlapped(pmid) ==
    \E w \in Workers : /\ runs[w].pc # "idle"
                       /\ runs[w].pmid = pmid
                       /\ runs[w].overlap

DistinctMessages ==
    \A v, w \in Workers :
        (v # w /\ runs[v].pc # "idle" /\ runs[w].pc # "idle")
            => runs[v].pmid # runs[w].pmid

C31_QuoteSendFailureRollsBack ==
    [][\A pmid \in JobIds :
          (/\ worker.pc = "send" /\ worker.path = "quote"
           /\ worker.pmid = pmid
           /\ worker' # worker
           /\ sent' = sent \/ sent'[Len(sent')].id = NULL)
             => (/\ UNCHANGED dbvars
                 /\ worker' = IdleWorker
                 /\ last'.pmid = pmid
                 /\ last'.outcome = "raised"
                 /\ last'.path = "quote"
                 /\ conversations'[worker.txn.conv_id].state = "CAPTURE_MIN"
                 /\ \A q \in Rows(quotes') :
                       quotes'[q].conversation_id = worker.txn.conv_id
                          => quotes'[q].status # "sent"
                 /\ ~Stamped(pmid)')]_vars

\* C31 witness: the gateway accepted the quote message of the last run and
\* gave no id; the run raised, and the database has the conversation in
\* CAPTURE_MIN, no quote and the message unstamped.
C31_Witness ==
    /\ last.outcome = "raised" /\ last.path = "quote"
    /\ Len(sent) = 1 /\ sent[1].kind = "quote" /\ sent[1].id = NULL
    /\ nfail = 0
    /\ quotes = <<>>
    /\ \E c \in Rows(conversations) : conversations[c].state = "CAPTURE_MIN"
    /\ ~Stamped(last.pmid)

\* The quote messages the gateway accepted from approve actions on an
\* approval.
ApproveSends(approval_id) ==
    {i \in 1..Len(sent) : sent[i].by = "approve" /\ sent[i].src = approval_id}

\* C32: when an approve action ends in an error (the send fails, the
\* conversation is not in HUMAN_APPROVAL, the commit fails), it has sent no
\* quote message to the customer and the approval, the quote and the
\* conversation are as they were.
C32_ApproveAllOrNothing ==
    [][\A approval_id \in Rows(approvals) :
          (/\ admin.pc \in {"send", "commit"}
           /\ admin.action = "approve"
           /\ admin.approval_id = approval_id
           /\ admin'.pc = "idle"
           /\ approvals'[approval_id].status # "approved")
             => (/\ UNCHANGED dbvars
                 /\ ApproveSends(approval_id)' = ApproveSends(approval_id)
                 /\ admin.pc = "commit" => admin.out_id = NULL)]_vars

\* Two requests for the approval were in flight at the same time.
ResolvedTogether(approval_id) ==
    \E a \in Admins : /\ admins[a].pc # "idle"
                      /\ admins[a].approval_id = approval_id
                      /\ admins[a].overlap

\* C33: when two approve requests, or an approve and a reject request, for
\* one pending approval are handled at the same time, the quote message is
\* sent to the customer at most once, and the quote's status and the
\* conversation's state agree with the status the approval has.
C33_ConcurrentResolution ==
    \A approval_id \in Rows(approvals) :
        ResolvedTogether(approval_id) =>
           LET approval == approvals[approval_id]
               quote == quotes[approval.quote_id]
               conversation == conversations[quote.conversation_id]
           IN /\ Cardinality(ApproveSends(approval_id)) <= 1
              /\ approval.status = "approved" =>
                    /\ quote.status = "sent"
                    /\ conversation.state = "QUOTE_SENT"
              /\ approval.status = "rejected" =>
                    /\ quote.status = "lost"
                    /\ conversation.state = "LOST"

Complete(data) ==
    /\ DataKeys \subseteq DOMAIN data
    /\ \A k \in DataKeys \ {"items"} : data[k] \notin {None, ""}
    /\ data["items"] # <<>>

\* C35: in both modes, parse_data_capture_message returns a data record only
\* if location, payment method, delivery day and at least one item are all
\* present in it, and returns None otherwise.
C35_NoPartialData ==
    q_call.fn = "parse_data_capture_message" =>
        (q_ret.parsed => Complete(q_ret.data))

\* C36: when the quantity reaches the min_quantity of at least one discount
\* of the item itself, calculate_item_price applies the one of them with the
\* largest min_quantity and no global discount, whatever its percentage,
\* 0 included.
C36_ItemDiscountFirst ==
    LET own == Reached({d \in q_db.volume_discounts :
                           d.item_id = q_call.item_id}, q_call.quantity)
    IN (/\ q_call.fn = "calculate_item_price"
        /\ q_ret.raised = ""
        /\ own # {})
       => \E d \in Largest(own) :
             q_ret.unit_price =
                Discounted(q_db.tenant_items[q_call.item_id], d.discount_pct)

\* The quote and the conversation of an approval.
QuoteOf(a) == approvals[a].quote_id
ConversationOf(a) == quotes[approvals[a].quote_id].conversation_id

\* C37: in every committed state the quote of a PENDING approval is DRAFT,
\* of an APPROVED one SENT, of a REJECTED one LOST; and the commit that
\* resolves an approval is the commit that moves its conversation to
\* QUOTE_SENT (approved) or LOST (rejected) and sets the quote's status: no
\* commit makes only part of these changes.
C37_ApprovalQuoteConversation ==
    [][\A a \in Rows(approvals) :
          /\ approvals'[a].status = "pending" =>
                quotes'[QuoteOf(a)].status = "draft"
          /\ approvals'[a].status = "approved" =>
                /\ quotes'[QuoteOf(a)].status = "sent"
                /\ approvals[a].status = "pending" =>
                      conversations'[ConversationOf(a)].state = "QUOTE_SENT"
          /\ approvals'[a].status = "rejected" =>
                /\ quotes'[QuoteOf(a)].status = "lost"
                /\ approvals[a].status = "pending" =>
                      conversations'[ConversationOf(a)].state = "LOST"]_vars

\* C37 witness: after a commit the database refused, an approve action has
\* committed: the approval is APPROVED, its quote SENT and its conversation
\* in QUOTE_SENT.
C37_Witness ==
    /\ nfail = 1
    /\ \E a \in Rows(approvals) :
          /\ approvals[a].status = "approved"
          /\ quotes[QuoteOf(a)].status = "sent"
          /\ conversations[ConversationOf(a)].state = "QUOTE_SENT"


\* C39: a run of process_inbound_event for a tenant whose subscription is
\* neither active nor trialing returns without error and without effect: no
\* row of the database changes (no contact, no conversation, no state, the
\* inbound message's conversation_id stays null) and nothing is sent.
C39_SubscriptionGate ==
    [][(~is_subscription_active(subscription_status) /\ last' # last) =>
          /\ last'.outcome \notin {"raised", "name_error"}
          /\ UNCHANGED <<dbvars, sent, advances>>]_vars

\* The same with the name is_subscription_active bound in handlers.py.
C39_GateWhenBound ==
    [][(gate_bound /\ ~is_subscription_active(subscription_status)
          /\ last' # last) =>
          /\ last'.outcome \in {"inactive", "not_found"}
          /\ UNCHANGED <<dbvars, sent, advances>>]_vars


\* The conversation of the contact on the channel, NULL when there is none.
FirstConversation ==
    IF ContactByPhone(Phone) = NULL THEN NULL
    ELSE ConversationByContact(ContactByPhone(Phone))

InCaptureMin ==
    /\ FirstConversation # NULL
    /\ conversations[FirstConversation].state = "CAPTURE_MIN"

\* The first-message step is committed whole: the inbound message carries
\* the conversation and one data-capture prompt is recorded for it.
FirstStepDone ==
    /\ InCaptureMin
    /\ \A p \in PMIDs : messages[p].conversation_id = FirstConversation
    /\ Cardinality({m \in DOMAIN messages :
                       /\ messages[m].direction = "outbound"
                       /\ messages[m].kind = "prompt"
                       /\ messages[m].conversation_id = FirstConversation})
          = 1

\* C38: when the job of the first message of a new conversation is run
\* again after every failed run and the gateway accepts a send at some
\* time, the conversation is eventually committed in CAPTURE_MIN with the
\* inbound message stamped and one data-capture prompt recorded, and no
\* run before that leaves the conversation in CAPTURE_MIN.
C38_FirstMessageLiveness ==
    /\ [](InCaptureMin => FirstStepDone)
    /\ <>FirstStepDone

\* The same with the name is_subscription_active bound in handlers.py and
\* a gateway whose answers carry a message id.
C38_WhenBoundAndIdGiven ==
    /\ []((InCaptureMin /\ \A i \in DOMAIN sent : sent[i].id # NULL)
            => FirstStepDone)
    /\ <>(\/ FirstStepDone
          \/ ~gate_bound
          \/ \E i \in DOMAIN sent : sent[i].id = NULL)


\* The events transition() accepts in a state, and the number of
\* successful transitions of the caller so far.
ValidEvents(state) ==
    {event \in Event : transition(state, event) # StateMachineError}

Transitions == Len(sm_path) - 1

\* The states n or fewer successful transitions lead to from the states
\* given.
RECURSIVE Within(_, _)
Within(states, n) ==
    IF n = 0 THEN states
    ELSE Within(states \cup ({transition(state, event) :
                                 state \in states, event \in Event}
                             \ {StateMachineError}),
                n - 1)

\* The lifecycle without the bound on the length: no state is entered a
\* second time, every state that is not WON or LOST has a valid event, and
\* every state is reached from INBOUND.
LifecycleEnds ==
    /\ \A i, j \in DOMAIN sm_path : sm_path[i] = sm_path[j] => i = j
    /\ ValidEvents(sm_state) = {} <=> sm_state \in Terminal
    /\ Within({"INBOUND"}, Cardinality(ConversationState)) = ConversationState

\* C40 as written: the lifecycle ends, and a sequence of successful
\* transitions that starts at INBOUND has at most 5 transitions.
C40_AtMostFive ==
    /\ LifecycleEnds
    /\ sm_path[1] = "INBOUND" => Transitions <= 5

\* C40: the conversation lifecycle always terminates: no state is entered
\* a second time, every state that is not WON or LOST has a valid event,
\* every state is reachable from INBOUND, and every maximal sequence of
\* successful transitions that starts at INBOUND has at most 6 transitions
\* and ends in WON or LOST.
C40_LifecycleTerminates ==
    /\ LifecycleEnds
    /\ sm_path[1] = "INBOUND" => Transitions <= 6

\* C40 witness: the longest lifecycle: INBOUND, CAPTURE_MIN, QUOTE_READY,
\* HUMAN_APPROVAL, QUOTE_SENT, WAITING_REPLY, then WON or LOST, where no
\* event is valid any more.
C40_Witness ==
    /\ sm_path[1] = "INBOUND"
    /\ Transitions = 6
    /\ sm_state \in Terminal
    /\ ValidEvents(sm_state) = {}

====
